---- MODULE Spec2Model ----
(***************************************************************************)
(* Request pipeline of the prono API (apps/api): the error taxonomy, the   *)
(* session-resolving middleware (authMiddleware, optionalAuthMiddleware),  *)
(* the route tables with their handlers, and the boundary error translator *)
(* errorLoggingMiddleware installed with app.onError.                      *)
(***************************************************************************)
EXTENDS Integers, Sequences, FiniteSets, TLC

\* ------------------------------------------------------------------------
\* Bounds
\* ------------------------------------------------------------------------
\* number of request slots the server holds at once
NumReqs == 2

\* ------------------------------------------------------------------------
\* JavaScript / JSON values
\* ------------------------------------------------------------------------
Undefined == [t |-> "undef"]
Str(s) == [t |-> "str", v |-> s]
\* a number, held as its numeral
Num(n) == [t |-> "num", v |-> n]
Obj(f) == [t |-> "obj", v |-> f]
EmptyObj == Obj(<<>>)

IsDefined(x) == x.t # "undef"

\* { ...a, k: v } : spreading undefined contributes no key, the later key wins
Spread(a, k, v) == Obj((k :> v) @@ (IF IsDefined(a) THEN a.v ELSE <<>>))

\* JSON.stringify as used by c.json: keys whose value is undefined are dropped
RECURSIVE Jsonify(_)
Jsonify(x) ==
  IF x.t = "obj"
  THEN Obj([k \in {j \in DOMAIN x.v : IsDefined(x.v[j])} |-> Jsonify(x.v[k])])
  ELSE x

\* ------------------------------------------------------------------------
\* Error taxonomy (domain/errors)
\* ------------------------------------------------------------------------
\* argument left out at the call site (a default parameter applies)
NoArg == "<no argument>"

\* class declarations: parent class, and the fields the class body declares
\* itself ("" / 0 / "inherit" when the class body does not declare the field)
ClassNames ==
  {"ApplicationError", "ClientError", "ServerError",
   "BadRequestError", "UnauthorizedError", "ForbiddenError", "NotFoundError",
   "ConflictError", "ValidationError", "InternalServerError",
   "ServiceUnavailableError",
   "AuthenticationFailedError", "InvalidSessionError",
   "SessionRefreshRequiredError", "UserNotFoundError",
   "UserAlreadyExistsError",
   "DatabaseError", "ExternalServiceError", "SuperTokensError"}

Decl(parent, statusCode, code, oper, defaultMessage) ==
  [parent |-> parent, statusCode |-> statusCode, code |-> code,
   oper |-> oper, defaultMessage |-> defaultMessage]

ApplicationErrorClass == Decl("", 0, "", "true", "")
ClientErrorClass == Decl("ApplicationError", 0, "", "true", "")

\* a ServerError that leaves isOperational as ApplicationError declares it
ServerErrorClass_Operational == Decl("ApplicationError", 0, "", "inherit", "")

ServerErrorClass == Decl("ApplicationError", 0, "", "false", "")

\* http errors
HttpErrorClasses ==
  [BadRequestError |->
     Decl("ClientError", 400, "BAD_REQUEST", "inherit", "Bad request"),
   UnauthorizedError |->
     Decl("ClientError", 401, "UNAUTHORIZED", "inherit",
          "Authentication required"),
   ForbiddenError |->
     Decl("ClientError", 403, "FORBIDDEN", "inherit", "Access forbidden"),
   NotFoundError |->
     Decl("ClientError", 404, "NOT_FOUND", "inherit", "Resource not found"),
   ConflictError |->
     Decl("ClientError", 409, "CONFLICT", "inherit", "Conflict"),
   ValidationError |->
     Decl("ClientError", 422, "VALIDATION_ERROR", "inherit",
          "Validation failed"),
   InternalServerError |->
     Decl("ServerError", 500, "INTERNAL_SERVER_ERROR", "inherit",
          "Internal server error"),
   ServiceUnavailableError |->
     Decl("ServerError", 503, "SERVICE_UNAVAILABLE", "inherit",
          "Service temporarily unavailable")]

\* InvalidSessionError without its own `code` field
InvalidSessionErrorClass_NoCode ==
  Decl("UnauthorizedError", 0, "", "inherit", "Session is invalid or expired")

InvalidSessionErrorClass ==
  Decl("UnauthorizedError", 0, "INVALID_SESSION", "inherit",
       "Session is invalid or expired")

\* domain errors
DomainErrorClasses ==
  [AuthenticationFailedError |->
     Decl("UnauthorizedError", 0, "AUTHENTICATION_FAILED", "inherit",
          "Authentication failed"),
   InvalidSessionError |-> InvalidSessionErrorClass,
   SessionRefreshRequiredError |->
     Decl("UnauthorizedError", 0, "SESSION_REFRESH_REQUIRED", "inherit",
          "Session refresh required"),
   UserNotFoundError |->
     Decl("NotFoundError", 0, "USER_NOT_FOUND", "inherit", "User not found"),
   UserAlreadyExistsError |->
     Decl("ConflictError", 0, "USER_ALREADY_EXISTS", "inherit",
          "User already exists")]

\* infrastructure errors
InfraErrorClasses ==
  [DatabaseError |->
     Decl("InternalServerError", 0, "DATABASE_ERROR", "inherit",
          "Database operation failed"),
   ExternalServiceError |->
     Decl("ServiceUnavailableError", 0, "EXTERNAL_SERVICE_ERROR", "inherit",
          ""),
   SuperTokensError |->
     Decl("ExternalServiceError", 0, "SUPERTOKENS_ERROR", "inherit", "")]

ClassDecl(cls) ==
  CASE cls = "ApplicationError" -> ApplicationErrorClass
    [] cls = "ClientError" -> ClientErrorClass
    [] cls = "ServerError" -> ServerErrorClass
    [] cls \in DOMAIN HttpErrorClasses -> HttpErrorClasses[cls]
    [] cls \in DOMAIN DomainErrorClasses -> DomainErrorClasses[cls]
    [] cls \in DOMAIN InfraErrorClasses -> InfraErrorClasses[cls]

\* field lookup on an instance: the most derived declaration wins
RECURSIVE StatusCodeOf(_)
StatusCodeOf(cls) ==
  IF cls = "" THEN 0
  ELSE IF ClassDecl(cls).statusCode # 0 THEN ClassDecl(cls).statusCode
  ELSE StatusCodeOf(ClassDecl(cls).parent)

RECURSIVE CodeOf(_)
CodeOf(cls) ==
  IF cls = "" THEN ""
  ELSE IF ClassDecl(cls).code # "" THEN ClassDecl(cls).code
  ELSE CodeOf(ClassDecl(cls).parent)

RECURSIVE IsOperationalOf(_)
IsOperationalOf(cls) ==
  IF ClassDecl(cls).oper = "inherit"
  THEN IsOperationalOf(ClassDecl(cls).parent)
  ELSE ClassDecl(cls).oper = "true"

\* ApplicationError constructor: name is the constructing class, message and
\* context are stored as passed; JS errors outside the taxonomy have no code,
\* no statusCode and no context
ApplicationError(cls, message, context) ==
  [isApp |-> TRUE, name |-> cls, code |-> CodeOf(cls),
   statusCode |-> StatusCodeOf(cls), isOperational |-> IsOperationalOf(cls),
   message |-> message, context |-> context, type |-> ""]

\* constructors that take (message = default, context?)
NewError(cls, message, context) ==
  ApplicationError(cls,
                   IF message = NoArg THEN ClassDecl(cls).defaultMessage
                                      ELSE message,
                   context)

\* new UserNotFoundError(userId?, message = "User not found", context?)
NewUserNotFoundError(userId, message, context) ==
  ApplicationError("UserNotFoundError",
                   IF message = NoArg
                   THEN ClassDecl("UserNotFoundError").defaultMessage
                   ELSE message,
                   Spread(context, "userId", userId))

\* `External service '${serviceName}' is unavailable`
UnavailableMessage(serviceName) ==
  IF serviceName = "SuperTokens"
  THEN "External service 'SuperTokens' is unavailable"
  ELSE "External service 'EmailService' is unavailable"

\* new ExternalServiceError(serviceName, message?, context?), also reached
\* through super(...) from SuperTokensError
ExternalServiceErrorCtor(cls, serviceName, message, context) ==
  ApplicationError(cls,
                   IF message = NoArg \/ message = ""
                     THEN UnavailableMessage(serviceName) ELSE message,
                   Spread(context, "serviceName", Str(serviceName)))

NewExternalServiceError(serviceName, message, context) ==
  ExternalServiceErrorCtor("ExternalServiceError", serviceName, message, context)

\* new SuperTokensError(message?, context?)
NewSuperTokensError(message, context) ==
  ExternalServiceErrorCtor("SuperTokensError", "SuperTokens", message, context)

\* an Error that is not an ApplicationError (TypeError, provider errors, ...)
JsError(name, message, type, statusCode) ==
  [isApp |-> FALSE, name |-> name, code |-> "", statusCode |-> statusCode,
   isOperational |-> FALSE, message |-> message, context |-> Undefined,
   type |-> type]

\* x instanceof Error: errors are the records built above; anything else a
\* throw statement may carry (a string, a number, null, undefined) is a value
IsError(x) == "isApp" \in DOMAIN x

\* x instanceof ApplicationError
InstanceOfApplicationError(x) == IsError(x) /\ x.isApp

\* x.message: undefined on a string or a number
MessageOf(x) == IF IsError(x) THEN Str(x.message) ELSE Undefined

\* reading a property of null or undefined throws a TypeError
PropertyAccessThrows(x) == ~IsError(x) /\ x.t \in {"null", "undef"}

PropertyAccessError ==
  JsError("TypeError", "Cannot read properties of null (reading 'name')", "", 0)

NoError == [isApp |-> FALSE, name |-> "", code |-> "", statusCode |-> 0,
            isOperational |-> FALSE, message |-> "", context |-> Undefined,
            type |-> ""]

\* ------------------------------------------------------------------------
\* Responses and log records
\* ------------------------------------------------------------------------
NoResponse == [status |-> 0, body |-> Undefined, by |-> ""]

\* c.json(value, status); `by` records which function built the response
Json(value, status, by) ==
  [status |-> status, body |-> Jsonify(value), by |-> by]

LogRecord(level, type, text, error, stack, status) ==
  [level |-> level, type |-> type, text |-> text, error |-> error,
   stack |-> stack, status |-> status]

\* ------------------------------------------------------------------------
\* Boundary error translator (middleware/logging.middleware.ts)
\* ------------------------------------------------------------------------
\* a translator that logs every application error with logger.error
errorLoggingMiddlewareLog_AlwaysError(error, prod) ==
  IF InstanceOfApplicationError(error)
  THEN LogRecord("error", "application_error", "Application error", error,
                 ~prod, error.statusCode)
  ELSE LogRecord("error", "unhandled_error", "Unhandled error", error, TRUE, 0)

\* a translator that logs every unhandled error without its stack
errorLoggingMiddlewareLog_NoStack(error, prod) ==
  IF InstanceOfApplicationError(error)
  THEN LogRecord(IF error.isOperational THEN "warn" ELSE "error",
                 "application_error", "Application error", error,
                 ~prod, error.statusCode)
  ELSE LogRecord("error", "unhandled_error", "Unhandled error", error, FALSE, 0)

\* the log record errorLoggingMiddleware emits for `error`
errorLoggingMiddlewareLog(error, prod) ==
  IF InstanceOfApplicationError(error)
  THEN LogRecord(IF error.isOperational THEN "warn" ELSE "error",
                 "application_error", "Application error", error,
                 ~prod, error.statusCode)
  ELSE LogRecord("error", "unhandled_error", "Unhandled error", error, TRUE, 0)

\* a translator that attaches the context whatever NODE_ENV is
errorLoggingMiddlewareResponse_AnyEnv(error, prod) ==
  IF InstanceOfApplicationError(error)
  THEN Json(Obj("error" :>
              Obj(("code" :> Str(error.code))
                  @@ ("message" :> Str(error.message))
                  @@ (IF IsDefined(error.context)
                      THEN "context" :> error.context ELSE <<>>))),
            error.statusCode, "errorLoggingMiddleware")
  ELSE Json(Obj("error" :>
              Obj(("code" :> Str("INTERNAL_SERVER_ERROR"))
                  @@ ("message" :> IF prod THEN Str("Internal server error")
                                           ELSE MessageOf(error)))),
            500, "errorLoggingMiddleware")

\* the response errorLoggingMiddleware returns for `error`
errorLoggingMiddlewareResponse(error, prod) ==
  IF InstanceOfApplicationError(error)
  THEN Json(Obj("error" :>
              Obj(("code" :> Str(error.code))
                  @@ ("message" :> Str(error.message))
                  @@ (IF IsDefined(error.context) /\ ~prod
                      THEN "context" :> error.context ELSE <<>>))),
            error.statusCode, "errorLoggingMiddleware")
  ELSE Json(Obj("error" :>
              Obj(("code" :> Str("INTERNAL_SERVER_ERROR"))
                  @@ ("message" :> IF prod THEN Str("Internal server error")
                                           ELSE MessageOf(error)))),
            500, "errorLoggingMiddleware")

\* ------------------------------------------------------------------------
\* Text helpers (strings are sequences of one-character strings)
\* ------------------------------------------------------------------------
IndexOf(s, ch) ==
  IF \E i \in 1..Len(s) : s[i] = ch
  THEN CHOOSE i \in 1..Len(s) : s[i] = ch /\ \A j \in 1..(i - 1) : s[j] # ch
  ELSE 0

\* String.prototype.split(ch)
RECURSIVE Split(_, _)
Split(s, ch) ==
  IF IndexOf(s, ch) = 0 THEN <<s>>
  ELSE <<SubSeq(s, 1, IndexOf(s, ch) - 1)>>
       \o Split(SubSeq(s, IndexOf(s, ch) + 1, Len(s)), ch)

\* String.prototype.trim()
RECURSIVE Trim(_)
Trim(s) ==
  IF s = <<>> THEN s
  ELSE IF Head(s) = " " THEN Trim(Tail(s))
  ELSE IF s[Len(s)] = " " THEN Trim(SubSeq(s, 1, Len(s) - 1))
  ELSE s

\* String.prototype.startsWith(p)
StartsWith(s, p) == Len(s) >= Len(p) /\ SubSeq(s, 1, Len(p)) = p

\* ------------------------------------------------------------------------
\* Request accessors handed to the auth provider (middleware/auth.middleware.ts)
\* ------------------------------------------------------------------------
NoCookieHeader == [present |-> FALSE, text |-> <<>>]
CookieHeader(text) == [present |-> TRUE, text |-> text]

\* request.getCookieValue(key) over the request's Cookie header
getCookieValue(header, key) ==
  IF ~header.present \/ header.text = <<>> THEN Undefined
  ELSE LET parts == Split(header.text, ";")
           hits == {i \in 1..Len(parts) :
                      StartsWith(Trim(parts[i]), key \o <<"=">>)}
       IN IF hits = {} THEN Undefined
          ELSE LET cookie == parts[CHOOSE i \in hits : \A j \in hits : i <= j]
               IN Str(Split(cookie, "=")[2])

\* name of the cookie the provider reads the access token from
SessionCookieName == <<"s", "A", "c", "c", "e", "s", "s", "T", "o", "k", "e", "n">>

\* Cookie headers of the modelled requests:
\*   (absent), "sAccessToken=tA", "sAccessToken=tB", "k=v; sAccessToken=tA",
\*   "k=v", ";=;"
RequestHeaders ==
  {NoCookieHeader,
   CookieHeader(SessionCookieName \o <<"=", "t", "A">>),
   CookieHeader(SessionCookieName \o <<"=", "t", "B">>),
   CookieHeader(<<"k", "=", "v", ";", " ">> \o SessionCookieName
                \o <<"=", "t", "A">>),
   CookieHeader(<<"k", "=", "v">>),
   CookieHeader(<<";", "=", ";">>)}

\* ------------------------------------------------------------------------
\* External collaborators: session verification and user lookup
\* ------------------------------------------------------------------------
UserIds == {"u1", "u2"}

Null == [t |-> "null"]
IsTruthy(x) == x.t \notin {"undef", "null"}

Return(value) == [kind |-> "return", value |-> value, error |-> NoError]
Throw(error) == [kind |-> "throw", value |-> Undefined, error |-> error]

SessionContainer(userId) == [t |-> "session", userId |-> userId]

\* texts a provider failure may carry
ProviderMessages == {"Session does not exist", "jwt expired"}

\* request.getCookieValue("sAccessToken"), as the provider calls it, for each
\* of the modelled Cookie headers
AccessTokenOf ==
  [h \in RequestHeaders |-> getCookieValue(h, SessionCookieName)]

\* session.getUserId() of the session an access token verifies to:
\* token "tA" is u1's, any other token is u2's
TokenUser(token) == IF token = Str(<<"t", "A">>) THEN "u1" ELSE "u2"

\* what getSession(request, response, {sessionRequired}) may do for a request:
\* without an access token it signals UNAUTHORISED (or yields undefined when
\* the session is optional); with one it returns the token's session or fails
getSession(header, sessionRequired) ==
  IF ~IsDefined(AccessTokenOf[header])
  THEN IF sessionRequired
       THEN {Throw(JsError("Error", m, "UNAUTHORISED", 0)) : m \in ProviderMessages}
       ELSE {Return(Undefined)}
  ELSE {Return(SessionContainer(TokenUser(AccessTokenOf[header])))}
       \cup {Throw(JsError("Error", m, "UNAUTHORISED", 0)) : m \in ProviderMessages}
       \cup {Throw(JsError("Error", m, "TRY_REFRESH_TOKEN", 0)) : m \in ProviderMessages}
       \cup {Throw(JsError("Error", "connect ECONNREFUSED", "", 0))}

\* new User(id, email, timeJoined, metadata)
User(id, email) == [t |-> "user", id |-> id, email |-> email]

\* the provider's directory: "a@x" for u1, "b@x" for u2
EmailOf(userId) ==
  IF userId = "u1" THEN <<"a", "@", "x">> ELSE <<"b", "@", "x">>

\* what supertokens.getUser(userId) may do: user info, undefined, or a failure
supertokensGetUser(userId) ==
  {Return([t |-> "userInfo", id |-> userId, email |-> EmailOf(userId)]),
   Return(Undefined),
   Throw(JsError("Error", "connect ECONNREFUSED", "", 0))}

\* SuperTokensAuthService.getUserById applied to one outcome of getUser
getUserById(outcome) ==
  IF outcome.kind = "throw" THEN Null
  ELSE IF ~IsTruthy(outcome.value) THEN Null
  ELSE User(outcome.value.id, outcome.value.email)

\* ------------------------------------------------------------------------
\* Route tables (routes/*.ts): per route, the handlers in registration order
\* ------------------------------------------------------------------------
\* a middleware registered on the route (it receives next)
Middleware(name) == [kind |-> "middleware", name |-> name]
\* a route handler
Handler(name) == [kind |-> "handler", name |-> name]
\* a route handler of the form
\*   async (c) => { await authMiddleware(c, async () => {}); return h(c) }
InlineAuth(name) == [kind |-> "inline", name |-> name]

Routes ==
  {"GET /health", "GET /api/hello", "GET /api/hello/me",
   "PATCH /api/users/profile", "ALL /api/auth/*",
   "GET /auth/me", "POST /auth/signout",
   "GET /examples/protected", "GET /examples/auth-check",
   "OPTIONAL /examples/protected",
   "TWICE /examples/protected", "OPTIONAL TWICE /examples/protected"}

\* the last three entries stand for routes no route table declares: one that
\* mounts optionalAuthMiddleware in front of a handler that reads the
\* identity slots, and two that run a session resolution twice in a row
Chain(rt) ==
  CASE rt = "GET /health" -> <<Handler("healthHandler")>>
    [] rt = "GET /api/hello" -> <<Handler("helloHandler")>>
    [] rt = "GET /api/hello/me" -> <<InlineAuth("helloNameHandler")>>
    [] rt = "PATCH /api/users/profile" ->
         <<Handler("updateUserProfileHandler"), Middleware("authMiddleware")>>
    [] rt = "ALL /api/auth/*" -> <<Handler("handleSupertokensRequest")>>
    [] rt = "GET /auth/me" -> <<InlineAuth("getCurrentUserHandler")>>
    [] rt = "POST /auth/signout" -> <<InlineAuth("signOutHandler")>>
    [] rt = "GET /examples/protected" ->
         <<Middleware("authMiddleware"), Handler("exampleProtectedHandler")>>
    [] rt = "GET /examples/auth-check" ->
         <<Middleware("authMiddleware"), Handler("exampleAuthCheckHandler")>>
    [] rt = "OPTIONAL /examples/protected" ->
         <<Middleware("optionalAuthMiddleware"),
           Handler("exampleProtectedHandler")>>
    [] rt = "TWICE /examples/protected" ->
         <<Middleware("authMiddleware"), Middleware("authMiddleware"),
           Handler("exampleProtectedHandler")>>
    [] rt = "OPTIONAL TWICE /examples/protected" ->
         <<Middleware("optionalAuthMiddleware"),
           Middleware("optionalAuthMiddleware"),
           Handler("exampleProtectedHandler")>>

\* routes the route tables and the documentation declare protected
ProtectedRoutes ==
  {"GET /api/hello/me", "PATCH /api/users/profile", "GET /auth/me",
   "POST /auth/signout", "GET /examples/protected", "GET /examples/auth-check"}

\* ------------------------------------------------------------------------
\* State
\* ------------------------------------------------------------------------
Reqs == 1..NumReqs

VARIABLES
  production,   \* process.env.NODE_ENV === "production"
  pc,           \* per request: where its handling stands
  route,        \* per request: the matched route
  cookies,      \* per request: its Cookie header
  pos,          \* per request: index of the running entry of the route's chain
  ctx,          \* per request: context variables set with c.set
  authLocals,   \* per request: locals of the running auth middleware call
  err,          \* per request: the error raised and not yet translated
  res,          \* per request: the response (c.res)
  log,          \* per request: records written to the log sink
  handlerRuns,  \* per request: how often a route handler's body was entered
  fault,        \* per request: the unexpected failure that struck its handler
  sink,         \* the log sink: "up", or "faulty" (warn/error writes may raise)
  frame,        \* per request: the middleware level an error has reached
  containerInstance, \* container.ts: the global container (0 is null)
  containerCalls,    \* the calls made to the container module, with results
  users,        \* InMemoryUserRepository.users: id -> User
  emailIndex,   \* InMemoryUserRepository.emailIndex: lower-cased email -> id
  clock,        \* how many ids the repository has generated
  executions,   \* per use-case execution: where it stands, and its result
  probe         \* the last call of the cookie accessor, with its result

requestVars == <<production, pc, route, cookies, pos, ctx, authLocals, err,
                 res, log, handlerRuns, fault, sink, frame>>

libraryVars == <<containerInstance, containerCalls, users, emailIndex, clock,
                 executions, probe>>

vars == <<production, pc, route, cookies, pos, ctx, authLocals, err, res, log,
          handlerRuns, fault, sink, frame, containerInstance, containerCalls,
          users, emailIndex, clock, executions, probe>>

\* ------------------------------------------------------------------------
\* Bounds of the container, the repository and the use cases
\* ------------------------------------------------------------------------
\* calls made to the container module
MaxCalls == 4
\* ids the repository generates
MaxUsers == 2
\* use-case executions in flight at once
NumExecs == 2
\* cookies in one Cookie header
MaxCookies == 2

Execs == 1..NumExecs

\* a call to the container module and how it ended
ContainerCall(op, raised, instance) ==
  [op |-> op, raised |-> raised, instance |-> instance]

NoExecution ==
  [pc |-> "idle", op |-> "", email |-> <<>>, password |-> <<>>, userId |-> 0,
   displayName |-> Undefined, existingUser |-> Null, user |-> Null,
   error |-> NoError, before |-> <<>>]

NoProbe == [called |-> FALSE, cookies |-> <<>>, header |-> NoCookieHeader,
            key |-> <<>>, value |-> Undefined]

\* app.ts has run: const container = initializeContainer(), and the
\* repository of the container is empty
AtStartup ==
  /\ containerInstance = 1
  /\ containerCalls = <<ContainerCall("initializeContainer", FALSE, 1)>>
  /\ users = <<>>
  /\ emailIndex = <<>>
  /\ clock = 0
  /\ executions = [e \in Execs |-> NoExecution]
  /\ probe = NoProbe

EmptyContext ==
  [container |-> Undefined, session |-> Undefined, userId |-> Undefined,
   user |-> Undefined]

\* lookup records how the provider's getUser call ended ("return", "throw")
NoLocals ==
  [session |-> Undefined, userId |-> "", user |-> Undefined,
   caught |-> NoError, lookup |-> ""]

Init ==
  /\ production \in BOOLEAN
  /\ pc = [r \in Reqs |-> "idle"]
  /\ route = [r \in Reqs |-> ""]
  /\ cookies = [r \in Reqs |-> NoCookieHeader]
  /\ pos = [r \in Reqs |-> 0]
  /\ ctx = [r \in Reqs |-> EmptyContext]
  /\ authLocals = [r \in Reqs |-> NoLocals]
  /\ err = [r \in Reqs |-> NoError]
  /\ res = [r \in Reqs |-> NoResponse]
  /\ log = [r \in Reqs |-> <<>>]
  /\ handlerRuns = [r \in Reqs |-> 0]
  /\ fault = [r \in Reqs |-> NoError]
  /\ sink = "up"
  /\ frame = [r \in Reqs |-> "chain"]
  /\ AtStartup

\* the server takes up a request for one of `routes` carrying one of
\* `headers`: a fresh context for it
ReceiveFrom(r, routes, headers) ==
  /\ pc[r] = "idle"
  /\ \E rt \in routes, h \in headers :
       /\ route' = [route EXCEPT ![r] = rt]
       /\ cookies' = [cookies EXCEPT ![r] = h]
  /\ pc' = [pc EXCEPT ![r] = "container"]
  /\ UNCHANGED <<libraryVars, production, sink, frame, pos, ctx, authLocals, err, res, log, handlerRuns,
                 fault>>

Receive(r) == ReceiveFrom(r, Routes, RequestHeaders)

\* a first middleware that passes the request on without c.set("container")
containerMiddleware_NoSet(r) ==
  /\ pc[r] = "container"
  /\ pc' = [pc EXCEPT ![r] = "logging"]
  /\ UNCHANGED <<libraryVars, production, sink, frame, route, cookies, pos, ctx, authLocals,
                 err, res, log, handlerRuns, fault>>

\* app.use("*", ...): c.set("container", container); await next()
containerMiddleware(r) ==
  /\ pc[r] = "container"
  /\ ctx' = [ctx EXCEPT ![r].container = [t |-> "container"]]
  /\ pc' = [pc EXCEPT ![r] = "logging"]
  /\ UNCHANGED <<libraryVars, production, sink, frame, route, cookies, pos, authLocals, err, res, log,
                 handlerRuns, fault>>

\* loggingMiddleware up to its await next()
loggingMiddlewareBefore(r) ==
  /\ pc[r] = "logging"
  /\ log' = [log EXCEPT ![r] =
               Append(@, LogRecord("info", "request", "Incoming request",
                                   NoError, FALSE, 0))]
  /\ pc' = [pc EXCEPT ![r] = "cors"]
  /\ UNCHANGED <<libraryVars, production, sink, frame, route, cookies, pos, ctx, authLocals, err, res,
                 handlerRuns, fault>>

\* cors(...) passes the request on to the route's first entry
cors(r) ==
  /\ pc[r] = "cors"
  /\ pos' = [pos EXCEPT ![r] = 1]
  /\ pc' = [pc EXCEPT ![r] = "dispatch"]
  /\ UNCHANGED <<libraryVars, production, sink, frame, route, cookies, ctx, authLocals, err, res, log,
                 handlerRuns, fault>>

Entry(r) == Chain(route[r])[pos[r]]

\* the framework runs the chain entry at pos; entries behind one that
\* answers without calling next are never run; a call of an auth middleware
\* starts with fresh locals
Dispatch(r) ==
  /\ pc[r] = "dispatch"
  /\ pos[r] <= Len(Chain(route[r]))
  /\ authLocals' = IF Entry(r).kind = "handler" THEN authLocals
                   ELSE [authLocals EXCEPT ![r] = NoLocals]
  /\ pc' = [pc EXCEPT ![r] =
              IF Entry(r).kind = "handler" THEN "handler"
              ELSE IF Entry(r).name = "optionalAuthMiddleware"
                   THEN "opt_getSession"
              ELSE "auth_getSession"]
  /\ UNCHANGED <<libraryVars, production, sink, frame, route, cookies, pos, ctx, err, res,
                 log, handlerRuns, fault>>

\* ------------------------------------------------------------------------
\* authMiddleware / optionalAuthMiddleware (middleware/auth.middleware.ts)
\* ------------------------------------------------------------------------
\* error.name.endsWith("Error"), over the names errors carry in this model
NameEndsWithError(name) ==
  name \in ClassNames \cup {"Error", "TypeError", "HTTPError"}

\* a catch block that treats TRY_REFRESH_TOKEN like UNAUTHORISED
authMiddlewareCatch_Merged(error) ==
  IF error.type = "UNAUTHORISED" \/ error.type = "TRY_REFRESH_TOKEN"
  THEN NewError("InvalidSessionError", "Not authenticated. Please log in.",
                Undefined)
  ELSE IF error.name # "" /\ NameEndsWithError(error.name)
          /\ error.statusCode # 0
  THEN error
  ELSE NewSuperTokensError("Authentication service error",
                           Obj("originalError" :> Str(error.message)))

\* a catch block that passes the provider's text on to the client
authMiddlewareCatch_Leaky(error) ==
  IF error.type = "UNAUTHORISED"
  THEN NewError("InvalidSessionError", error.message, Undefined)
  ELSE IF error.type = "TRY_REFRESH_TOKEN"
  THEN NewError("SessionRefreshRequiredError", error.message, Undefined)
  ELSE IF error.name # "" /\ NameEndsWithError(error.name)
          /\ error.statusCode # 0
  THEN error
  ELSE NewSuperTokensError("Authentication service error",
                           Obj("originalError" :> Str(error.message)))

\* the catch block of authMiddleware: what it throws for a caught `error`
authMiddlewareCatch(error) ==
  IF error.type = "UNAUTHORISED"
  THEN NewError("InvalidSessionError", "Not authenticated. Please log in.",
                Undefined)
  ELSE IF error.type = "TRY_REFRESH_TOKEN"
  THEN NewError("SessionRefreshRequiredError",
                "Session expired. Please refresh your token.", Undefined)
  ELSE IF error.name # "" /\ NameEndsWithError(error.name)
          /\ error.statusCode # 0
  THEN error
  ELSE NewSuperTokensError("Authentication service error",
                           Obj("originalError" :> Str(error.message)))

\* a server without a handler for raised errors: the request is dropped
Raise_Unhandled(r, error) ==
  /\ err' = [err EXCEPT ![r] = error]
  /\ pc' = [pc EXCEPT ![r] = "dropped"]

\* an error leaves the running chain entry: the framework hands it to the
\* handler installed with app.onError
Raise(r, error) ==
  /\ err' = [err EXCEPT ![r] = error]
  /\ pc' = [pc EXCEPT ![r] = "onError"]

\* await next() inside a middleware: the next chain entry runs; the no-op
\* next of an inline call returns at once and the route's handler follows
CallNext(r) ==
  IF Entry(r).kind = "inline"
  THEN /\ pc' = [pc EXCEPT ![r] = "handler"]
       /\ pos' = pos
  ELSE /\ pc' = [pc EXCEPT ![r] = "dispatch"]
       /\ pos' = [pos EXCEPT ![r] = @ + 1]

\* an authMiddleware that sets the session slot as soon as getSession returns
authMiddlewareGetSession_EarlySet(r) ==
  /\ pc[r] = "auth_getSession"
  /\ \E o \in getSession(cookies[r], TRUE) :
       IF o.kind = "return"
       THEN /\ authLocals' = [authLocals EXCEPT ![r] =
                                [session |-> o.value,
                                 userId |-> o.value.userId,
                                 user |-> Undefined,
                                 caught |-> NoError, lookup |-> ""]]
            /\ pc' = [pc EXCEPT ![r] = "auth_getUser"]
            /\ err' = err
            /\ ctx' = [ctx EXCEPT ![r].session = o.value]
       ELSE /\ authLocals' = [authLocals EXCEPT ![r].caught = o.error]
            /\ Raise(r, authMiddlewareCatch(o.error))
            /\ ctx' = ctx
  /\ UNCHANGED <<libraryVars, production, sink, frame, route, cookies, pos, res, log, handlerRuns,
                 fault>>

\* authMiddleware: await getSession(request, response, {sessionRequired: true})
authMiddlewareGetSession(r) ==
  /\ pc[r] = "auth_getSession"
  /\ \E o \in getSession(cookies[r], TRUE) :
       IF o.kind = "return"
       THEN /\ authLocals' = [authLocals EXCEPT ![r] =
                                [session |-> o.value,
                                 userId |-> o.value.userId,
                                 user |-> Undefined,
                                 caught |-> NoError, lookup |-> ""]]
            /\ pc' = [pc EXCEPT ![r] = "auth_getUser"]
            /\ err' = err
       ELSE /\ authLocals' = [authLocals EXCEPT ![r].caught = o.error]
            /\ Raise(r, authMiddlewareCatch(o.error))
  /\ UNCHANGED <<libraryVars, production, sink, frame, route, cookies, pos, ctx, res, log, handlerRuns,
                 fault>>

\* an authMiddleware that sets the session and userId slots only
authMiddlewareGetUser_NoUserSlot(r) ==
  /\ pc[r] = "auth_getUser"
  /\ \E o \in supertokensGetUser(authLocals[r].userId) :
       LET user == getUserById(o)
           notFound == NewUserNotFoundError(Str(authLocals[r].userId),
                                            "Authenticated user not found",
                                            Undefined)
       IN
       IF ~IsTruthy(user)
       THEN /\ authLocals' = [authLocals EXCEPT ![r].caught = notFound,
                                                ![r].user = user,
                                                ![r].lookup = o.kind]
            /\ Raise(r, authMiddlewareCatch(notFound))
            /\ UNCHANGED <<ctx, pos>>
       ELSE /\ ctx' = [ctx EXCEPT ![r].session = authLocals[r].session,
                                  ![r].userId = Str(authLocals[r].userId)]
            /\ authLocals' = [authLocals EXCEPT ![r].user = user,
                                                ![r].lookup = o.kind]
            /\ CallNext(r)
            /\ err' = err
  /\ UNCHANGED <<libraryVars, production, sink, frame, route, cookies, res, log,
                 handlerRuns, fault>>

\* an authMiddleware that keeps session and userId in module-level variables
\* (here: those of request 1) instead of in locals of the call
authMiddlewareGetUser_SharedLocals(r) ==
  /\ pc[r] = "auth_getUser"
  /\ \E o \in supertokensGetUser(authLocals[1].userId) :
       LET user == getUserById(o)
           notFound == NewUserNotFoundError(Str(authLocals[1].userId),
                                            "Authenticated user not found",
                                            Undefined)
       IN
       IF ~IsTruthy(user)
       THEN /\ authLocals' = [authLocals EXCEPT ![r].caught = notFound,
                                                ![r].user = user,
                                                ![r].lookup = o.kind]
            /\ Raise(r, authMiddlewareCatch(notFound))
            /\ UNCHANGED <<ctx, pos>>
       ELSE /\ ctx' = [ctx EXCEPT ![r].session = authLocals[1].session,
                                  ![r].userId = Str(authLocals[1].userId),
                                  ![r].user = user]
            /\ authLocals' = [authLocals EXCEPT ![r].user = user,
                                                ![r].lookup = o.kind]
            /\ CallNext(r)
            /\ err' = err
  /\ UNCHANGED <<libraryVars, production, sink, frame, route, cookies, res, log,
                 handlerRuns, fault>>

\* authMiddleware: await authService.getUserById(userId), then the c.set
\* calls and await next(), or UserNotFoundError through the catch block
authMiddlewareGetUser(r) ==
  /\ pc[r] = "auth_getUser"
  /\ \E o \in supertokensGetUser(authLocals[r].userId) :
       LET user == getUserById(o)
           notFound == NewUserNotFoundError(Str(authLocals[r].userId),
                                            "Authenticated user not found",
                                            Undefined)
       IN
       IF ~IsTruthy(user)
       THEN /\ authLocals' = [authLocals EXCEPT ![r].caught = notFound,
                                                ![r].user = user,
                                                ![r].lookup = o.kind]
            /\ Raise(r, authMiddlewareCatch(notFound))
            /\ UNCHANGED <<ctx, pos>>
       ELSE /\ ctx' = [ctx EXCEPT ![r].session = authLocals[r].session,
                                  ![r].userId = Str(authLocals[r].userId),
                                  ![r].user = user]
            /\ authLocals' = [authLocals EXCEPT ![r].user = user,
                                                ![r].lookup = o.kind]
            /\ CallNext(r)
            /\ err' = err
  /\ UNCHANGED <<libraryVars, production, sink, frame, route, cookies, res, log,
                 handlerRuns, fault>>

\* an optionalAuthMiddleware whose getSession call sits outside the try block
optionalAuthMiddlewareGetSession_NoCatch(r) ==
  /\ pc[r] = "opt_getSession"
  /\ \E o \in getSession(cookies[r], FALSE) :
       IF o.kind = "throw"
       THEN /\ authLocals' = [authLocals EXCEPT ![r].caught = o.error]
            /\ Raise(r, o.error)
            /\ pos' = pos
       ELSE IF IsTruthy(o.value)
       THEN /\ authLocals' = [authLocals EXCEPT ![r] =
                                [session |-> o.value,
                                 userId |-> o.value.userId,
                                 user |-> Undefined,
                                 caught |-> NoError, lookup |-> ""]]
            /\ pc' = [pc EXCEPT ![r] = "opt_getUser"]
            /\ UNCHANGED <<pos, err>>
       ELSE /\ CallNext(r)
            /\ UNCHANGED <<authLocals, err>>
  /\ UNCHANGED <<libraryVars, production, sink, frame, route, cookies, ctx, res, log, handlerRuns,
                 fault>>

\* optionalAuthMiddleware: await getSession(..., {sessionRequired: false});
\* a failure is caught and logged with console.debug, then await next()
optionalAuthMiddlewareGetSession(r) ==
  /\ pc[r] = "opt_getSession"
  /\ \E o \in getSession(cookies[r], FALSE) :
       IF o.kind = "throw"
       THEN /\ authLocals' = [authLocals EXCEPT ![r].caught = o.error]
            /\ CallNext(r)
       ELSE IF IsTruthy(o.value)
       THEN /\ authLocals' = [authLocals EXCEPT ![r] =
                                [session |-> o.value,
                                 userId |-> o.value.userId,
                                 user |-> Undefined,
                                 caught |-> NoError, lookup |-> ""]]
            /\ pc' = [pc EXCEPT ![r] = "opt_getUser"]
            /\ pos' = pos
       ELSE /\ CallNext(r)
            /\ authLocals' = authLocals
  /\ UNCHANGED <<libraryVars, production, sink, frame, route, cookies, ctx, err, res, log, handlerRuns,
                 fault>>

\* optionalAuthMiddleware: await authService.getUserById(userId); the three
\* slots are set only if a user came back; then await next()
optionalAuthMiddlewareGetUser(r) ==
  /\ pc[r] = "opt_getUser"
  /\ \E o \in supertokensGetUser(authLocals[r].userId) :
       LET user == getUserById(o) IN
       ctx' = IF IsTruthy(user)
              THEN [ctx EXCEPT ![r].session = authLocals[r].session,
                               ![r].userId = Str(authLocals[r].userId),
                               ![r].user = user]
              ELSE ctx
  /\ CallNext(r)
  /\ UNCHANGED <<libraryVars, production, sink, frame, route, cookies, authLocals, err, res, log,
                 handlerRuns, fault>>

\* ------------------------------------------------------------------------
\* Route handlers (handlers/*.ts, routes/auth.routes.ts)
\* ------------------------------------------------------------------------
\* `...${arg}...` : a text built from a template and a value
Template(fmt, arg) == [t |-> "text", fmt |-> fmt, arg |-> arg]

\* this.metadata?.[k] of a user
MetadataField(user, k) ==
  IF "metadata" \in DOMAIN user /\ user.metadata.t = "obj"
     /\ k \in DOMAIN user.metadata.v
  THEN user.metadata.v[k]
  ELSE Undefined

\* truthiness of a text or of undefined: the empty text is falsy
IsTruthyText(x) == x.t = "str" /\ x.v # <<>>

\* User.getDisplayName(): "first last", else the first name, else the part
\* of the email before "@"
getDisplayName(user) ==
  LET firstName == MetadataField(user, "firstName")
      lastName == MetadataField(user, "lastName")
  IN IF IsTruthyText(firstName) /\ IsTruthyText(lastName)
     THEN firstName.v \o <<" ">> \o lastName.v
     ELSE IF IsTruthyText(firstName) THEN firstName.v
     ELSE Split(user.email, "@")[1]

\* runtime failures no handler anticipates
UnexpectedErrors ==
  {JsError("TypeError", m, "", 0) :
     m \in {"Cannot read properties of undefined",
            "connect ECONNREFUSED 10.0.0.5:5432"}}

\* a handler body either runs through or hits an unexpected failure
Failures == {NoError} \cup UnexpectedErrors

Running(r, name) ==
  /\ pc[r] = "handler"
  /\ Entry(r).name = name

\* the handler returns a response; control unwinds through the middleware
Respond(r, response) ==
  /\ res' = [res EXCEPT ![r] = response]
  /\ pc' = [pc EXCEPT ![r] = "unwind"]

Entered(r) == handlerRuns' = [handlerRuns EXCEPT ![r] = @ + 1]

\* the failure f (if any) strikes the handler body once it is past `reached`
Struck(r, f, reached) ==
  fault' = [fault EXCEPT ![r] = IF reached THEN f ELSE NoError]

healthHandler(r) ==
  /\ Running(r, "healthHandler")
  /\ Entered(r)
  /\ \E f \in Failures :
       /\ Struck(r, f, TRUE)
       /\ IF f # NoError
          THEN Raise(r, f) /\ res' = res
          ELSE Respond(r, Json(Obj("status" :> Str("ok")), 200,
                               "healthHandler"))
               /\ err' = err
  /\ UNCHANGED <<libraryVars, production, sink, frame, route, cookies, pos, ctx, authLocals, log>>

helloHandler(r) ==
  /\ Running(r, "helloHandler")
  /\ Entered(r)
  /\ \E f \in Failures :
       /\ Struck(r, f, TRUE)
       /\ IF f # NoError
          THEN Raise(r, f) /\ res' = res
          ELSE Respond(r, Json(Obj("message" :> Str("Hello World!")), 200,
                               "helloHandler"))
               /\ err' = err
  /\ UNCHANGED <<libraryVars, production, sink, frame, route, cookies, pos, ctx, authLocals, log>>

\* the whole body sits in try/catch: a failure is logged and answered here
helloNameHandler(r) ==
  /\ Running(r, "helloNameHandler")
  /\ Entered(r)
  /\ \E f \in Failures :
       /\ Struck(r, f, TRUE)
       /\ IF f # NoError
          THEN /\ log' = [log EXCEPT ![r] =
                            Append(@, LogRecord("error", "handler",
                                                "Error in helloNameHandler",
                                                f, TRUE, 0))]
               /\ Respond(r, Json(Obj(("error" :> Str("Internal server error"))
                                      @@ ("message" :>
                                            Str("An unexpected error occurred while processing your request"))),
                                  500, "helloNameHandler"))
          ELSE /\ log' = log
               /\ IF ~IsTruthy(ctx[r].user)
                  THEN Respond(r, Json(Obj(("error" :> Str("Not authenticated"))
                                           @@ ("message" :>
                                                 Str("User authentication is required to access this resource"))),
                                       401, "helloNameHandler"))
                  ELSE Respond(r, Json(Obj("message" :>
                                             Template("Hello {}! Welcome back.",
                                                      getDisplayName(ctx[r].user))),
                                       200, "helloNameHandler"))
  /\ UNCHANGED <<libraryVars, production, sink, frame, route, cookies, pos, ctx, authLocals, err>>

getCurrentUserHandler(r) ==
  /\ Running(r, "getCurrentUserHandler")
  /\ Entered(r)
  /\ \E f \in Failures, o \in supertokensGetUser(authLocals[r].userId) :
       LET user == getUserById(o) IN
       /\ Struck(r, f, IsTruthy(ctx[r].session))
       /\ IF ~IsTruthy(ctx[r].session)
          THEN Raise(r, NewError("InvalidSessionError", "Not authenticated",
                                 Undefined))
               /\ res' = res
          ELSE IF f # NoError
          THEN Raise(r, f) /\ res' = res
          ELSE IF ~IsTruthy(user)
          THEN Raise(r, NewUserNotFoundError(Str(ctx[r].session.userId),
                                             "Authenticated user not found",
                                             Undefined))
               /\ res' = res
          ELSE Respond(r, Json(Obj(("id" :> Str(user.id))
                                   @@ ("email" :> Str(user.email))
                                   @@ ("displayName" :>
                                         Str(getDisplayName(user)))),
                               200, "getCurrentUserHandler"))
               /\ err' = err
  /\ UNCHANGED <<libraryVars, production, sink, frame, route, cookies, pos, ctx, authLocals, log>>

\* session.revokeSession() sits in try/catch: whatever fails there is logged
\* and rethrown as SuperTokensError("Failed to sign out")
signOutHandler(r) ==
  /\ Running(r, "signOutHandler")
  /\ Entered(r)
  /\ \E f \in Failures \cup {JsError("Error", "connect ECONNREFUSED", "", 0)} :
       /\ Struck(r, f, IsTruthy(ctx[r].session))
       /\ IF ~IsTruthy(ctx[r].session)
          THEN /\ Raise(r, NewError("InvalidSessionError", "Not authenticated",
                                    Undefined))
               /\ UNCHANGED <<res, log>>
          ELSE IF f # NoError
          THEN /\ log' = [log EXCEPT ![r] =
                            Append(@, LogRecord("error", "handler",
                                                "Error revoking session",
                                                f, TRUE, 0))]
               /\ Raise(r, NewSuperTokensError("Failed to sign out",
                                               Obj("originalError" :>
                                                     Str(f.message))))
               /\ res' = res
          ELSE /\ Respond(r, Json(Obj("message" :>
                                        Str("Signed out successfully")),
                                  200, "signOutHandler"))
               /\ UNCHANGED <<err, log>>
  /\ UNCHANGED <<libraryVars, production, sink, frame, route, cookies, pos, ctx, authLocals>>

\* reads the slots with optional chaining, so unset slots do not fail
exampleProtectedHandler(r) ==
  /\ Running(r, "exampleProtectedHandler")
  /\ Entered(r)
  /\ \E f \in Failures :
       /\ Struck(r, f, TRUE)
       /\ IF f # NoError
          THEN Raise(r, f) /\ res' = res
          ELSE Respond(r, Json(Obj(("userId" :>
                                      IF IsTruthy(ctx[r].user)
                                      THEN Str(ctx[r].user.id) ELSE Undefined)
                                   @@ ("email" :>
                                         IF IsTruthy(ctx[r].user)
                                         THEN Str(ctx[r].user.email)
                                         ELSE Undefined)),
                               200, "exampleProtectedHandler"))
               /\ err' = err
  /\ UNCHANGED <<libraryVars, production, sink, frame, route, cookies, pos, ctx, authLocals, log>>

\* the User entity has no role, so user.role !== "admin" for every user
exampleAuthCheckHandler(r) ==
  /\ Running(r, "exampleAuthCheckHandler")
  /\ Entered(r)
  /\ \E f \in Failures :
       /\ Struck(r, f, IsTruthy(ctx[r].userId))
       /\ IF ~IsTruthy(ctx[r].userId)
          THEN Raise(r, NewError("UnauthorizedError", "Authentication required",
                                 Undefined))
          ELSE IF f # NoError
          THEN Raise(r, f)
          ELSE Raise(r, NewError("ForbiddenError",
                                 "Insufficient permissions to access admin resources",
                                 Obj(("resource" :> Str("admin resources"))
                                     @@ ("action" :> Str("access")))))
  /\ UNCHANGED <<libraryVars, production, sink, frame, route, cookies, pos, ctx, authLocals, res, log>>

\* answers 401 itself when no session is set, else runs the use case
updateUserProfileHandler(r) ==
  /\ Running(r, "updateUserProfileHandler")
  /\ Entered(r)
  /\ \E f \in Failures, found \in BOOLEAN :
       /\ Struck(r, f, IsTruthy(ctx[r].session))
       /\ IF ~IsTruthy(ctx[r].session)
          THEN Respond(r, Json(Obj("error" :> Str("Not authenticated")), 401,
                               "updateUserProfileHandler"))
               /\ err' = err
          ELSE IF f # NoError
          THEN Raise(r, f) /\ res' = res
          ELSE IF ~found
          THEN Raise(r, NewError("NotFoundError", "User not found",
                                 Obj("userId" :> Str(ctx[r].session.userId))))
               /\ res' = res
          ELSE Respond(r, Json(Obj(("id" :> Str(ctx[r].session.userId))
                                   @@ ("message" :>
                                         Str("Profile updated successfully"))),
                               200, "updateUserProfileHandler"))
               /\ err' = err
  /\ UNCHANGED <<libraryVars, production, sink, frame, route, cookies, pos, ctx, authLocals, log>>

\* the provider's own middleware answers, or this handler answers 404 / 500
handleSupertokensRequest(r) ==
  /\ Running(r, "handleSupertokensRequest")
  /\ Entered(r)
  /\ \E f \in Failures, responseSent \in BOOLEAN :
       /\ Struck(r, f, TRUE)
       /\ IF f # NoError
          THEN Respond(r, Json(Obj("error" :> Str("Internal server error")),
                               500, "handleSupertokensRequest"))
          ELSE IF responseSent
          THEN Respond(r, Json(Obj("status" :> Str("OK")), 200, "supertokens"))
          ELSE Respond(r, Json(Obj("error" :> Str("Not found")), 404,
                               "handleSupertokensRequest"))
  /\ UNCHANGED <<libraryVars, production, sink, frame, route, cookies, pos, ctx, authLocals, err, log>>

\* ------------------------------------------------------------------------
\* app.onError(errorLoggingMiddleware) and the way back out
\* ------------------------------------------------------------------------
\* the Error a failing write to the log sink raises
SinkError == JsError("Error", "write EPIPE", "", 0)

\* whether a logger.warn / logger.error call writes its record or raises
SinkOutcomes == IF sink = "faulty" THEN BOOLEAN ELSE {TRUE}

\* the translator has no try/catch: a TypeError from reading error.name of
\* null/undefined, or an Error raised by the logger, leaves it
errorLoggingMiddleware(r) ==
  /\ pc[r] = "onError"
  /\ IF PropertyAccessThrows(err[r])
     THEN /\ err' = [err EXCEPT ![r] = PropertyAccessError]
          /\ pc' = [pc EXCEPT ![r] = "propagate"]
          /\ UNCHANGED <<log, res>>
     ELSE \E written \in SinkOutcomes :
            IF written
            THEN /\ log' = [log EXCEPT ![r] =
                             Append(@, errorLoggingMiddlewareLog(err[r],
                                                                 production))]
                 /\ res' = [res EXCEPT ![r] =
                             errorLoggingMiddlewareResponse(err[r], production)]
                 /\ pc' = [pc EXCEPT ![r] =
                            IF frame[r] \in {"chain", "cors"} THEN "unwind"
                            ELSE "done"]
                 /\ err' = err
            ELSE /\ err' = [err EXCEPT ![r] = SinkError]
                 /\ pc' = [pc EXCEPT ![r] = "propagate"]
                 /\ UNCHANGED <<log, res>>
  /\ UNCHANGED <<libraryVars, production, sink, frame, route, cookies, pos, ctx, authLocals,
                 handlerRuns, fault>>

\* an error raised by the translator leaves the middleware level it was
\* invoked at and arrives in the enclosing one: authMiddleware's catch block
\* rethrows it, loggingMiddleware's catch block logs and rethrows it, the
\* other middleware have no catch; each level hands what arrives to the
\* handler installed with app.onError, and serve() answers what app.fetch
\* rejects with
Propagate(r) ==
  /\ pc[r] = "propagate"
  /\ IF frame[r] = "chain" /\ pos[r] > 1
     THEN /\ pos' = [pos EXCEPT ![r] = @ - 1]
          /\ IF Chain(route[r])[pos[r] - 1].name = "authMiddleware"
             THEN /\ err' = [err EXCEPT ![r] = authMiddlewareCatch(@)]
                  /\ authLocals' = [authLocals EXCEPT ![r].caught = err[r]]
             ELSE UNCHANGED <<err, authLocals>>
          /\ pc' = [pc EXCEPT ![r] = "onError"]
          /\ UNCHANGED <<frame, log, res>>
     ELSE IF frame[r] = "chain"
     THEN /\ frame' = [frame EXCEPT ![r] = "cors"]
          /\ pc' = [pc EXCEPT ![r] = "onError"]
          /\ UNCHANGED <<pos, err, authLocals, log, res>>
     ELSE IF frame[r] = "cors"
     THEN /\ frame' = [frame EXCEPT ![r] = "logging"]
          /\ \E written \in SinkOutcomes :
               IF written
               THEN /\ log' = [log EXCEPT ![r] =
                                Append(@, LogRecord("error", "error",
                                                    "Request failed", err[r],
                                                    FALSE, 0))]
                    /\ err' = err
               ELSE /\ err' = [err EXCEPT ![r] = SinkError]
                    /\ log' = log
          /\ pc' = [pc EXCEPT ![r] = "onError"]
          /\ UNCHANGED <<pos, authLocals, res>>
     ELSE IF frame[r] \in {"logging", "container"}
     THEN /\ frame' = [frame EXCEPT ![r] =
                         IF @ = "logging" THEN "container" ELSE "fetch"]
          /\ pc' = [pc EXCEPT ![r] = "onError"]
          /\ UNCHANGED <<pos, err, authLocals, log, res>>
     ELSE /\ res' = [res EXCEPT ![r] =
                       [status |-> 500, body |-> Null, by |-> "serve"]]
          /\ pc' = [pc EXCEPT ![r] = "done"]
          /\ UNCHANGED <<frame, pos, err, authLocals, log>>
  /\ UNCHANGED <<libraryVars, production, sink, route, cookies, ctx,
                 handlerRuns, fault>>

\* loggingMiddleware after its await next(): the response is logged and sent
loggingMiddlewareAfter(r) ==
  /\ pc[r] = "unwind"
  /\ log' = [log EXCEPT ![r] =
               Append(@, LogRecord("info", "response", "Request completed",
                                   NoError, FALSE, res[r].status))]
  /\ pc' = [pc EXCEPT ![r] = "done"]
  /\ UNCHANGED <<libraryVars, production, sink, frame, route, cookies, pos, ctx, authLocals, err, res,
                 handlerRuns, fault>>

\* the response is out; the request's context is discarded
Discard(r) ==
  /\ pc[r] = "done"
  /\ pc' = [pc EXCEPT ![r] = "idle"]
  /\ route' = [route EXCEPT ![r] = ""]
  /\ cookies' = [cookies EXCEPT ![r] = NoCookieHeader]
  /\ pos' = [pos EXCEPT ![r] = 0]
  /\ ctx' = [ctx EXCEPT ![r] = EmptyContext]
  /\ authLocals' = [authLocals EXCEPT ![r] = NoLocals]
  /\ err' = [err EXCEPT ![r] = NoError]
  /\ res' = [res EXCEPT ![r] = NoResponse]
  /\ log' = [log EXCEPT ![r] = <<>>]
  /\ handlerRuns' = [handlerRuns EXCEPT ![r] = 0]
  /\ fault' = [fault EXCEPT ![r] = NoError]
  /\ frame' = [frame EXCEPT ![r] = "chain"]
  /\ UNCHANGED <<libraryVars, production, sink>>

Step(r) ==
  \/ Receive(r)
  \/ containerMiddleware(r)
  \/ loggingMiddlewareBefore(r)
  \/ cors(r)
  \/ Dispatch(r)
  \/ authMiddlewareGetSession(r)
  \/ authMiddlewareGetUser(r)
  \/ optionalAuthMiddlewareGetSession(r)
  \/ optionalAuthMiddlewareGetUser(r)
  \/ healthHandler(r)
  \/ helloHandler(r)
  \/ helloNameHandler(r)
  \/ getCurrentUserHandler(r)
  \/ signOutHandler(r)
  \/ exampleProtectedHandler(r)
  \/ exampleAuthCheckHandler(r)
  \/ updateUserProfileHandler(r)
  \/ handleSupertokensRequest(r)
  \/ errorLoggingMiddleware(r)
  \/ loggingMiddlewareAfter(r)
  \/ Discard(r)

\* requests are taken up one after the other
OthersIdle(r) == \A q \in Reqs \ {r} : pc[q] = "idle"

Next == \E r \in Reqs : OthersIdle(r) /\ Step(r)

Spec == Init /\ [][Next]_vars

\* the event loop resumes every continuation that is ready, and every
\* provider call returns or raises: a request that can take a step takes it
Fairness == \A r \in Reqs : WF_vars(OthersIdle(r) /\ Step(r))

SpecLive == Spec /\ Fairness

\* ------------------------------------------------------------------------
\* Requests in flight at the same time: each await (getSession, the user
\* lookup, next) lets the steps of other requests run in between
\* ------------------------------------------------------------------------
ConcurrentRoutes == {"GET /examples/protected"}

\* "sAccessToken=tA" and "sAccessToken=tB"
ConcurrentHeaders ==
  {CookieHeader(SessionCookieName \o <<"=", "t", "A">>),
   CookieHeader(SessionCookieName \o <<"=", "t", "B">>)}

StepConcurrent(r) ==
  \/ ReceiveFrom(r, ConcurrentRoutes, ConcurrentHeaders)
  \/ containerMiddleware(r)
  \/ loggingMiddlewareBefore(r)
  \/ cors(r)
  \/ Dispatch(r)
  \/ authMiddlewareGetSession(r)
  \/ authMiddlewareGetUser(r)
  \/ exampleProtectedHandler(r)
  \/ errorLoggingMiddleware(r)
  \/ loggingMiddlewareAfter(r)
  \/ Discard(r)

NextConcurrent == \E r \in Reqs : StepConcurrent(r)

SpecConcurrent == Init /\ [][NextConcurrent]_vars

\* ------------------------------------------------------------------------
\* The same server over a log sink whose warn/error writes may raise
\* ------------------------------------------------------------------------
InitSink ==
  /\ production \in BOOLEAN
  /\ pc = [r \in Reqs |-> "idle"]
  /\ route = [r \in Reqs |-> ""]
  /\ cookies = [r \in Reqs |-> NoCookieHeader]
  /\ pos = [r \in Reqs |-> 0]
  /\ ctx = [r \in Reqs |-> EmptyContext]
  /\ authLocals = [r \in Reqs |-> NoLocals]
  /\ err = [r \in Reqs |-> NoError]
  /\ res = [r \in Reqs |-> NoResponse]
  /\ log = [r \in Reqs |-> <<>>]
  /\ handlerRuns = [r \in Reqs |-> 0]
  /\ fault = [r \in Reqs |-> NoError]
  /\ sink = "faulty"
  /\ frame = [r \in Reqs |-> "chain"]
  /\ AtStartup

NextSink == \E r \in Reqs : OthersIdle(r) /\ (Step(r) \/ Propagate(r))

SpecSink == InitSink /\ [][NextSink]_vars

\* ------------------------------------------------------------------------
\* The translator on its own: errors of every kind, raised with the messages
\* and contexts below, await translation
\* ------------------------------------------------------------------------
MessageArgs == {NoArg, "User not found", "connect ECONNREFUSED 10.0.0.5:5432"}
ContextArgs == {Undefined, EmptyObj, Obj("userId" :> Str("u1"))}

\* classes whose constructor is (message = default, context?)
PlainClasses ==
  {"BadRequestError", "UnauthorizedError", "ForbiddenError", "NotFoundError",
   "ConflictError", "ValidationError", "InternalServerError",
   "ServiceUnavailableError", "AuthenticationFailedError",
   "InvalidSessionError", "SessionRefreshRequiredError",
   "UserAlreadyExistsError", "DatabaseError"}

ThrownErrors ==
  {NewError(cls, m, c) : cls \in PlainClasses, m \in MessageArgs, c \in ContextArgs}
  \cup {NewUserNotFoundError(u, m, c) :
          u \in {Undefined, Str("u2")}, m \in MessageArgs, c \in ContextArgs}
  \cup {NewExternalServiceError("EmailService", m, c) :
          m \in MessageArgs, c \in ContextArgs}
  \cup {NewSuperTokensError(m, c) : m \in MessageArgs, c \in ContextArgs}
  \cup {JsError(n, m, "", 0) : n \in {"Error", "TypeError"},
                               m \in MessageArgs \ {NoArg}}

\* the same error thrown with another message
WithMessage(e, m) == [e EXCEPT !.message = m]

InitTranslate ==
  /\ production \in BOOLEAN
  /\ \E e \in ThrownErrors :
       /\ err \in [Reqs -> {NoError, e}
                           \cup {WithMessage(e, m) : m \in MessageArgs \ {NoArg}}]
       /\ err[1] = e
  /\ pc = [r \in Reqs |-> IF err[r] = NoError THEN "idle" ELSE "onError"]
  /\ route = [r \in Reqs |-> ""]
  /\ cookies = [r \in Reqs |-> NoCookieHeader]
  /\ pos = [r \in Reqs |-> 0]
  /\ ctx = [r \in Reqs |-> EmptyContext]
  /\ authLocals = [r \in Reqs |-> NoLocals]
  /\ res = [r \in Reqs |-> NoResponse]
  /\ log = [r \in Reqs |-> <<>>]
  /\ handlerRuns = [r \in Reqs |-> 0]
  /\ fault = [r \in Reqs |-> NoError]
  /\ sink = "up"
  /\ frame = [r \in Reqs |-> "chain"]
  /\ AtStartup

NextTranslate == \E r \in Reqs : errorLoggingMiddleware(r)

SpecTranslate == InitTranslate /\ [][NextTranslate]_vars

\* ------------------------------------------------------------------------
\* The translator handed values that are not Error objects
\* ------------------------------------------------------------------------
\* throw "boom"; throw ""; throw 42; throw 0; throw null; throw undefined
RaisedValues == {Str("boom"), Str(""), Num("42"), Num("0"), Null, Undefined}

InitValues ==
  /\ production \in BOOLEAN
  /\ err \in [Reqs -> RaisedValues \cup {NoError}]
  /\ err[1] # NoError
  /\ pc = [r \in Reqs |-> IF err[r] = NoError THEN "idle" ELSE "onError"]
  /\ route = [r \in Reqs |-> ""]
  /\ cookies = [r \in Reqs |-> NoCookieHeader]
  /\ pos = [r \in Reqs |-> 0]
  /\ ctx = [r \in Reqs |-> EmptyContext]
  /\ authLocals = [r \in Reqs |-> NoLocals]
  /\ res = [r \in Reqs |-> NoResponse]
  /\ log = [r \in Reqs |-> <<>>]
  /\ handlerRuns = [r \in Reqs |-> 0]
  /\ fault = [r \in Reqs |-> NoError]
  /\ sink = "up"
  /\ frame = [r \in Reqs |-> "chain"]
  /\ AtStartup

SpecValues == InitValues /\ [][NextTranslate]_vars

\* ------------------------------------------------------------------------
\* Properties of the translator
\* ------------------------------------------------------------------------
\* errorLoggingMiddleware has answered request r
Translated(r) == pc[r] = "unwind" /\ res[r].by = "errorLoggingMiddleware"

\* body.error of an envelope
ErrorOf(response) == response.body.v["error"].v

\* the bindings of the taxonomy table: status and code per kind
KindTable ==
  [BadRequestError |-> [status |-> 400, code |-> "BAD_REQUEST"],
   UnauthorizedError |-> [status |-> 401, code |-> "UNAUTHORIZED"],
   InvalidSessionError |-> [status |-> 401, code |-> "INVALID_SESSION"],
   SessionRefreshRequiredError |->
     [status |-> 401, code |-> "SESSION_REFRESH_REQUIRED"],
   ForbiddenError |-> [status |-> 403, code |-> "FORBIDDEN"],
   NotFoundError |-> [status |-> 404, code |-> "NOT_FOUND"],
   UserNotFoundError |-> [status |-> 404, code |-> "USER_NOT_FOUND"],
   ConflictError |-> [status |-> 409, code |-> "CONFLICT"],
   UserAlreadyExistsError |-> [status |-> 409, code |-> "USER_ALREADY_EXISTS"],
   ValidationError |-> [status |-> 422, code |-> "VALIDATION_ERROR"],
   InternalServerError |-> [status |-> 500, code |-> "INTERNAL_SERVER_ERROR"],
   DatabaseError |-> [status |-> 500, code |-> "DATABASE_ERROR"],
   ServiceUnavailableError |-> [status |-> 503, code |-> "SERVICE_UNAVAILABLE"],
   ExternalServiceError |->
     [status |-> 503, code |-> "EXTERNAL_SERVICE_ERROR"]]

NotFoundU1 == NewError("NotFoundError", "User not found",
                       Obj("userId" :> Str("u1")))

\* C4: the body of a translated ApplicationError has an error.context key
\* exactly when NODE_ENV is not production and the error carries a context
\* (then it is that context); NotFoundError("User not found", {userId: "u1"})
\* gives 404 with the context outside production and 404 without it inside
C4_ContextOnlyOutsideProduction ==
  \A r \in Reqs :
    (Translated(r) /\ err[r].isApp) =>
      /\ ("context" \in DOMAIN ErrorOf(res[r]))
           <=> (~production /\ IsDefined(err[r].context))
      /\ "context" \in DOMAIN ErrorOf(res[r]) =>
           ErrorOf(res[r])["context"] = Jsonify(err[r].context)
      /\ err[r] = NotFoundU1 =>
           /\ res[r].status = 404
           /\ res[r].body =
                IF production
                THEN Obj("error" :> Obj(("code" :> Str("NOT_FOUND"))
                                        @@ ("message" :> Str("User not found"))))
                ELSE Obj("error" :> Obj(("code" :> Str("NOT_FOUND"))
                                        @@ ("message" :> Str("User not found"))
                                        @@ ("context" :>
                                              Obj("userId" :> Str("u1")))))

C4_Witness ==
  \E r \in Reqs :
    /\ Translated(r)
    /\ production
    /\ err[r] = NotFoundU1
    /\ "context" \notin DOMAIN ErrorOf(res[r])

NonOperational(e) == ~e.isApp \/ ~e.isOperational

NoSessionCookie(r) == ~IsDefined(getCookieValue(cookies[r], SessionCookieName))

\* the chain entry of r that is running (or ran last) calls authMiddleware
InAuthMiddleware(r) ==
  /\ pos[r] \in 1..Len(Chain(route[r]))
  /\ \/ Entry(r).kind = "inline"
     \/ Entry(r).kind = "middleware" /\ Entry(r).name = "authMiddleware"

\* authMiddleware of request r ended in its catch block
AuthFailed(r) ==
  /\ route[r] # ""
  /\ InAuthMiddleware(r)
  /\ pc[r] \in {"onError", "unwind", "done"}
  /\ authLocals[r].caught # NoError

\* C2: authMiddleware raises InvalidSessionError (401) on the provider's
\* unauthenticated signal, in particular without a session cookie, raises
\* SessionRefreshRequiredError (401) on its refresh-needed signal, and raises
\* UserNotFoundError (404) when the session verified but no user came back;
\* the downstream handler is not entered in any of these cases
C2_RequiredResolutionFailures ==
  \A r \in Reqs :
    AuthFailed(r) =>
      /\ authLocals[r].caught.type = "UNAUTHORISED" =>
           err[r].name = "InvalidSessionError" /\ err[r].statusCode = 401
      /\ NoSessionCookie(r) =>
           err[r].name = "InvalidSessionError" /\ err[r].statusCode = 401
      /\ authLocals[r].caught.type = "TRY_REFRESH_TOKEN" =>
           err[r].name = "SessionRefreshRequiredError"
           /\ err[r].statusCode = 401
      /\ IsTruthy(authLocals[r].session) =>
           err[r].name = "UserNotFoundError" /\ err[r].statusCode = 404
      /\ handlerRuns[r] = 0
      /\ pc[r] \in {"unwind", "done"} => res[r].status = err[r].statusCode

C2_Witness ==
  \E r \in Reqs :
    /\ AuthFailed(r)
    /\ pc[r] = "done"
    /\ authLocals[r].caught.type = "TRY_REFRESH_TOKEN"
    /\ res[r].status = 401

OptionalRoute(r) == route[r] = "OPTIONAL /examples/protected"

IdentityUnset(r) ==
  /\ ~IsDefined(ctx[r].session)
  /\ ~IsDefined(ctx[r].userId)
  /\ ~IsDefined(ctx[r].user)

\* C3: on a route behind optionalAuthMiddleware no error is raised by the
\* session resolution: whatever the Cookie header, and whether getSession
\* throws or the user lookup fails or finds nobody, the identity slots stay
\* unset and the downstream handler is entered exactly once
C3_OptionalResolutionNeverRaises ==
  \A r \in Reqs :
    OptionalRoute(r) =>
      /\ handlerRuns[r] <= 1
      /\ pc[r] \in {"onError", "unwind", "done"} => handlerRuns[r] = 1
      /\ pc[r] = "onError" => err[r] = fault[r] /\ fault[r] # NoError
      /\ authLocals[r].caught # NoError => IdentityUnset(r)
      /\ NoSessionCookie(r) => IdentityUnset(r)
      /\ IdentityUnset(r)
         \/ (/\ ctx[r].session = authLocals[r].session
             /\ IsTruthy(ctx[r].user)
             /\ ctx[r].userId = Str(ctx[r].user.id))

C3_Witness ==
  \E r \in Reqs :
    /\ OptionalRoute(r)
    /\ pc[r] = "done"
    /\ authLocals[r].caught.type = "TRY_REFRESH_TOKEN"
    /\ handlerRuns[r] = 1
    /\ res[r].status = 200

\* the envelope {error: {code, message, context?}}
IsEnvelope(body) ==
  /\ body.t = "obj"
  /\ DOMAIN body.v = {"error"}
  /\ body.v["error"].t = "obj"
  /\ {"code", "message"} \subseteq DOMAIN body.v["error"].v
  /\ DOMAIN body.v["error"].v \subseteq {"code", "message", "context"}

\* C7: every response with a status of 400 or above is built by
\* errorLoggingMiddleware and has the envelope shape
C7_OnlyTranslatorBuildsErrorResponses ==
  \A r \in Reqs :
    (pc[r] \in {"unwind", "done"} /\ res[r].status >= 400) =>
      /\ res[r].by = "errorLoggingMiddleware"
      /\ IsEnvelope(res[r].body)

\* C8: a request without a session cookie to a route declared protected is
\* answered 401 with body
\* {error: {code: "INVALID_SESSION", message: "Not authenticated. Please log in."}}
C8_ProtectedWithoutCookie ==
  \A r \in Reqs :
    (route[r] \in ProtectedRoutes /\ NoSessionCookie(r) /\ pc[r] = "done") =>
      /\ res[r].status = 401
      /\ res[r].body =
           Obj("error" :>
                 Obj(("code" :> Str("INVALID_SESSION"))
                     @@ ("message" :> Str("Not authenticated. Please log in."))))

\* C9: on a route declared protected the handler body is entered only after
\* authMiddleware verified the session and found the user for this request
C9_HandlerOnlyAfterAuth ==
  \A r \in Reqs :
    (route[r] \in ProtectedRoutes /\ handlerRuns[r] > 0) =>
      /\ IsTruthy(authLocals[r].session)
      /\ authLocals[r].caught = NoError
      /\ ctx[r].session = authLocals[r].session
      /\ IsTruthy(ctx[r].user)

\* C10: in production an unexpected failure inside a route handler is
\* answered 500 with body
\* {error: {code: "INTERNAL_SERVER_ERROR", message: "Internal server error"}}
C10_UnexpectedFailureIs500 ==
  \A r \in Reqs :
    (production /\ pc[r] = "done" /\ fault[r] \in UnexpectedErrors) =>
      /\ res[r].status = 500
      /\ res[r].body =
           Obj("error" :>
                 Obj(("code" :> Str("INTERNAL_SERVER_ERROR"))
                     @@ ("message" :> Str("Internal server error"))))


\* ------------------------------------------------------------------------
\* The translator's own failures
\* ------------------------------------------------------------------------
\* the translator raised instead of returning a response
TranslatorRaised(r) == pc[r] = "propagate"

\* C11: errorLoggingMiddleware, given a raised value that is not an Error
\* object (a string, a number, null, undefined), does not raise and returns
\* a 500 response whose body is an envelope with error.code
\* INTERNAL_SERVER_ERROR and an error.message string, in production and
\* outside it
C11_NonErrorValueIs500 ==
  \A r \in Reqs :
    /\ ~TranslatorRaised(r)
    /\ Translated(r) /\ ~IsError(err[r]) =>
         /\ res[r].status = 500
         /\ res[r].body.t = "obj"
         /\ DOMAIN res[r].body.v = {"error"}
         /\ DOMAIN ErrorOf(res[r]) = {"code", "message"}
         /\ ErrorOf(res[r])["code"] = Str("INTERNAL_SERVER_ERROR")
         /\ ErrorOf(res[r])["message"].t = "str"

\* the error in flight stems from a failed write to the log sink
SinkFailureOf(e) ==
  \/ e = SinkError
  \/ e.context = Obj("originalError" :> Str(SinkError.message))

\* C12: if logging or building the response fails inside
\* errorLoggingMiddleware itself (the log sink raises), the translator does
\* not propagate that failure: the request still ends with a hardcoded
\* minimal 500 JSON body
C12_TranslatorFailureFallsBack ==
  \A r \in Reqs :
    /\ pc[r] # "propagate"
    /\ pc[r] \in {"unwind", "done"} /\ IsError(err[r]) /\ SinkFailureOf(err[r]) =>
         /\ res[r].status = 500
         /\ res[r].body.t = "obj"

\* ------------------------------------------------------------------------
\* Properties of the required resolution
\* ------------------------------------------------------------------------
\* the provider failed during authMiddleware with something other than its
\* unauthenticated and refresh-needed signals: getSession threw such an
\* error, or the provider's getUser threw
ProviderFailed(r) ==
  /\ route[r] # ""
  /\ InAuthMiddleware(r)
  /\ \/ /\ authLocals[r].caught # NoError
        /\ ~authLocals[r].caught.isApp
        /\ authLocals[r].caught.type \notin {"UNAUTHORISED", "TRY_REFRESH_TOKEN"}
     \/ authLocals[r].lookup = "throw"

\* C13: during authMiddleware, any provider failure other than the
\* unauthenticated and refresh-needed signals, raised by session
\* verification or by the provider's user lookup, surfaces as
\* SuperTokensError (503, SUPERTOKENS_ERROR) and not as a 4xx error
C13_ProviderFailureIsSuperTokensError ==
  \A r \in Reqs :
    ProviderFailed(r) /\ pc[r] \in {"onError", "unwind", "done"} =>
      /\ err[r].name = "SuperTokensError"
      /\ err[r].statusCode = 503
      /\ err[r].code = "SUPERTOKENS_ERROR"
      /\ pc[r] \in {"unwind", "done"} => res[r].status = 503

\* authMiddleware of request r ran through: the session verified and the
\* lookup returned a user
AuthSucceeded(r) ==
  /\ route[r] # ""
  /\ authLocals[r].lookup = "return"
  /\ authLocals[r].caught = NoError

\* C14: when authMiddleware's resolution succeeds, the context holds
\* session, userId and user before the downstream handler starts; userId is
\* the verified session's user id and user is the record the lookup
\* returned for that id
C14_SlotsSetOnSuccess ==
  \A r \in Reqs :
    AuthSucceeded(r) =>
      /\ pc[r] \in {"dispatch", "handler", "onError", "unwind", "done"}
      /\ IsTruthy(ctx[r].session)
      /\ ctx[r].session = authLocals[r].session
      /\ ctx[r].userId = Str(ctx[r].session.userId)
      /\ IsTruthy(ctx[r].user)
      /\ ctx[r].user = authLocals[r].user
      /\ ctx[r].user = User(ctx[r].session.userId,
                            EmailOf(ctx[r].session.userId))

C14_Witness ==
  \E r \in Reqs :
    /\ AuthSucceeded(r)
    /\ pc[r] = "handler"
    /\ handlerRuns[r] = 0
    /\ ctx[r].userId = Str("u2")
    /\ ctx[r].user = User("u2", EmailOf("u2"))

IdentitySet(r) ==
  /\ IsTruthy(ctx[r].session)
  /\ IsTruthy(ctx[r].userId)
  /\ IsTruthy(ctx[r].user)

\* C15: in every reachable state of a request, also while the resolution is
\* suspended at getSession or at the user lookup, after either call failed,
\* and when the request never resumes, the slots session, userId and user
\* are all unset or all set, under authMiddleware and under
\* optionalAuthMiddleware
C15_IdentityAllOrNothing ==
  \A r \in Reqs : IdentityUnset(r) \/ IdentitySet(r)

C15_Witness ==
  \E r \in Reqs :
    /\ AuthFailed(r)
    /\ IsTruthy(authLocals[r].session)
    /\ authLocals[r].lookup = "throw"
    /\ IdentityUnset(r)

\* r is on a route that runs a session resolution twice, and its second run
\* has started: the first run left a resolved identity in the context
SecondResolution(r) ==
  /\ route[r] \in {"TWICE /examples/protected",
                   "OPTIONAL TWICE /examples/protected"}
  /\ pos[r] = 2
  /\ IdentitySet(r)

\* C16: a second run of the session resolution (authMiddleware or
\* optionalAuthMiddleware) within the same request, with a resolved identity
\* already in the context, does not raise and leaves session, userId and
\* user as they were
C16_SecondResolutionIsSafe ==
  \A r \in Reqs :
    SecondResolution(r) =>
      /\ pc[r] \notin {"onError", "unwind", "done"}
      /\ ctx[r].session =
           SessionContainer(TokenUser(getCookieValue(cookies[r],
                                                     SessionCookieName)))
      /\ ctx[r].userId = Str(ctx[r].session.userId)
      /\ ctx[r].user = User(ctx[r].session.userId,
                            EmailOf(ctx[r].session.userId))

\* ------------------------------------------------------------------------
\* Properties of the pipeline
\* ------------------------------------------------------------------------
\* positions in r's log of the records of the given types
Records(r, types) == {i \in 1..Len(log[r]) : log[r][i].type \in types}

\* records errorLoggingMiddleware wrote: one per invocation
TranslatorRecords(r) == Records(r, {"application_error", "unhandled_error"})

\* records loggingMiddleware wrote when it completed ("Request completed")
\* or raised ("Request failed")
LoggingEnded(r) == Records(r, {"response", "error"})

\* C17: on every request in which a handler or middleware raises,
\* errorLoggingMiddleware is invoked exactly once, after the raise and after
\* all other middleware has completed or raised; it is never invoked on a
\* request that completes without raising
C17_TranslatorOnceAfterMiddleware ==
  \A r \in Reqs :
    /\ Cardinality(TranslatorRecords(r)) <= 1
    /\ pc[r] \in {"unwind", "done"} =>
         (err[r] # NoError <=> Cardinality(TranslatorRecords(r)) = 1)
    /\ TranslatorRecords(r) # {} => err[r] # NoError
    /\ \A i \in TranslatorRecords(r) : \E j \in LoggingEnded(r) : j < i

\* no step of r's pipeline ran more than once
NothingRetried(r) ==
  /\ handlerRuns[r] <= 1
  /\ Cardinality(Records(r, {"request"})) <= 1
  /\ Cardinality(Records(r, {"response"})) <= 1
  /\ Cardinality(TranslatorRecords(r)) <= 1

\* r ended in exactly one of Success-Response and Error-Response
Terminal(r) ==
  /\ pc[r] = "done"
  /\ res[r].status # 0
  /\ err[r] # NoError <=> res[r].by = "errorLoggingMiddleware"

\* C18: every received request eventually reaches exactly one terminal
\* state, Success-Response or Error-Response, given that every provider call
\* returns or raises: no failure of session verification, of the user lookup
\* or of a handler leaves it without a response, and no step is retried
C18_EveryRequestAnswered ==
  /\ [](\A r \in Reqs : NothingRetried(r) /\ (pc[r] = "done" => Terminal(r)))
  /\ \A r \in Reqs : (pc[r] # "idle") ~> Terminal(r)

C18_Witness ==
  \E r \in Reqs :
    /\ Terminal(r)
    /\ authLocals[r].lookup = "throw"
    /\ res[r].status = 404

\* the route's entries are running: an auth middleware or a handler may read
\* the container slot
InRoute(r) ==
  pc[r] \in {"dispatch", "auth_getSession", "auth_getUser", "opt_getSession",
            "opt_getUser", "handler"}

\* C19: the statically declared middleware run in the order container
\* population, loggingMiddleware, CORS, route dispatch; so the container
\* slot is set whenever a route handler or an auth middleware reads it, and
\* only the container middleware and the session resolution write the
\* request context
C19_MiddlewareOrder ==
  [][\A r \in Reqs :
       /\ pc[r] = "idle" /\ pc'[r] # "idle" => pc'[r] = "container"
       /\ pc[r] # "logging" /\ pc'[r] = "logging" => pc[r] = "container"
       /\ pc[r] # "cors" /\ pc'[r] = "cors" => pc[r] = "logging"
       /\ ~InRoute(r) /\ InRoute(r)' => pc[r] = "cors" /\ pc'[r] = "dispatch"
       /\ InRoute(r)' => IsDefined(ctx'[r].container)
                         /\ Cardinality(Records(r, {"request"})') = 1
       /\ ctx'[r].container # ctx[r].container =>
            pc[r] \in {"container", "done"}
       /\ <<ctx'[r].session, ctx'[r].userId, ctx'[r].user>>
             # <<ctx[r].session, ctx[r].userId, ctx[r].user>> =>
            pc[r] \in {"auth_getUser", "opt_getUser", "done"}
    ]_vars

C19_Witness ==
  \E r \in Reqs :
    /\ pc[r] = "handler"
    /\ IsDefined(ctx[r].container)
    /\ IdentitySet(r)
    /\ Cardinality(Records(r, {"request"})) = 1

\* ------------------------------------------------------------------------
\* Properties of concurrently handled requests
\* ------------------------------------------------------------------------
\* the user r's own Cookie header resolves to
OwnUser(r) == TokenUser(getCookieValue(cookies[r], SessionCookieName))

\* C20: under any interleaving of requests suspended at getSession or at
\* the user lookup, the session, userId and user in a request's context are
\* those resolved from that request's own cookies: no request reads or
\* overwrites identity state of another request
C20_IdentityIsOwn ==
  \A r \in Reqs :
    /\ IdentityUnset(r) \/ IdentitySet(r)
    /\ IdentitySet(r) =>
         /\ ctx[r].session = SessionContainer(OwnUser(r))
         /\ ctx[r].userId = Str(OwnUser(r))
         /\ ctx[r].user = User(OwnUser(r), EmailOf(OwnUser(r)))
    /\ IsTruthy(authLocals[r].session) =>
         authLocals[r].session = SessionContainer(OwnUser(r))

C20_Witness ==
  \E r, q \in Reqs :
    /\ pc[r] = "handler" /\ ctx[r].userId = Str("u1")
    /\ pc[q] = "auth_getUser" /\ authLocals[q].userId = "u2"
    /\ IdentitySet(r) /\ IdentityUnset(q)

\* ------------------------------------------------------------------------
\* Severity of the translator's log record
\* ------------------------------------------------------------------------
\* C21: for every ApplicationError the translator has translated, the
\* translator emitted exactly one log record, at warn severity when the
\* error's isOperational is true and at error severity when it is false
C21_SeverityFollowsIsOperational ==
  \A r \in Reqs :
    (Translated(r) /\ InstanceOfApplicationError(err[r])) =>
      /\ Len(log[r]) = 1
      /\ log[r][1].type = "application_error"
      /\ log[r][1].error = err[r]
      /\ log[r][1].level = IF err[r].isOperational THEN "warn" ELSE "error"

C21_Witness ==
  \E r, q \in Reqs :
    /\ Translated(r) /\ err[r].name = "UserNotFoundError"
    /\ err[r].isOperational /\ log[r][1].level = "warn"
    /\ Translated(q) /\ q # r /\ log[q][1].level = "warn"

\* ------------------------------------------------------------------------
\* isOperational and the status code of the taxonomy
\* ------------------------------------------------------------------------
IsClientStatus(status) == status \in 400..499
IsServerStatus(status) == status \in 500..599

\* C22: every instance of a concrete error type, whatever message and
\* context it was constructed with, has isOperational = true exactly when
\* its status code is 4xx and isOperational = false exactly when it is 5xx;
\* the translator answers with that status
C22_OperationalIffClientStatus ==
  \A r \in Reqs :
    InstanceOfApplicationError(err[r]) =>
      /\ err[r].isOperational <=> IsClientStatus(err[r].statusCode)
      /\ ~err[r].isOperational <=> IsServerStatus(err[r].statusCode)
      /\ Translated(r) => res[r].status = err[r].statusCode

C22_Witness ==
  \E r, q \in Reqs :
    /\ Translated(r) /\ err[r].name = "SuperTokensError"
    /\ err[r].message = "User not found"
    /\ err[r].context = Obj(("userId" :> Str("u1"))
                            @@ ("serviceName" :> Str("SuperTokens")))
    /\ ~err[r].isOperational /\ res[r].status = 503
    /\ q # r /\ pc[q] = "onError" /\ err[q].message # err[r].message

\* ------------------------------------------------------------------------
\* What a session failure tells the client
\* ------------------------------------------------------------------------
\* request r was answered for a provider failure of the given type
SessionFailureAnswered(r, type) ==
  /\ AuthFailed(r)
  /\ authLocals[r].caught.type = type
  /\ pc[r] \in {"unwind", "done"}

FixedMessage(type) ==
  IF type = "UNAUTHORISED" THEN "Not authenticated. Please log in."
  ELSE "Session expired. Please refresh your token."

\* C23: the message answered for an unauthenticated or refresh-needed
\* failure is the fixed one and the error carries no context: two requests
\* whose provider failures have the same type but different details receive
\* identical response bodies
C23_SessionFailureBodyIsFixed ==
  \A type \in {"UNAUTHORISED", "TRY_REFRESH_TOKEN"} :
    \A r, q \in Reqs :
      SessionFailureAnswered(r, type) =>
        /\ res[r].by = "errorLoggingMiddleware"
        /\ ErrorOf(res[r])["message"] = Str(FixedMessage(type))
        /\ err[r].context = Undefined
        /\ DOMAIN ErrorOf(res[r]) = {"code", "message"}
        /\ SessionFailureAnswered(q, type) => res[q].body = res[r].body

C23_Witness ==
  \E r, q \in Reqs :
    /\ SessionFailureAnswered(r, "UNAUTHORISED")
    /\ SessionFailureAnswered(q, "UNAUTHORISED")
    /\ authLocals[r].caught.message # authLocals[q].caught.message
    /\ cookies[r] # cookies[q]

\* ------------------------------------------------------------------------
\* InMemoryUserRepository (infra/repositories/user.repository.ts)
\* ------------------------------------------------------------------------
\* String.prototype.toLowerCase() over the letters the model uses
ToLowerCase(s) ==
  [i \in 1..Len(s) |->
     IF s[i] = "A" THEN "a" ELSE IF s[i] = "B" THEN "b" ELSE s[i]]

\* new User(id, email, timeJoined, metadata)
NewUser(id, email, metadata) ==
  [t |-> "user", id |-> id, email |-> email, metadata |-> metadata]

\* a map without one of its keys
MapDelete(m, k) == [j \in DOMAIN m \ {k} |-> m[j]]

\* findById(id): this.users.get(id) || null
findById(id) == IF id \in DOMAIN users THEN users[id] ELSE Null

\* findByEmail(email)
findByEmail(email) ==
  IF ToLowerCase(email) \notin DOMAIN emailIndex THEN Null
  ELSE findById(emailIndex[ToLowerCase(email)])

\* existsByEmail(email)
existsByEmail(email) == ToLowerCase(email) \in DOMAIN emailIndex

\* create(data): a user under a generated id (`user_${Date.now()}_${random}`,
\* here the number of the generated id), and its index entry
create(email, password) ==
  /\ clock < MaxUsers
  /\ users' = ((clock + 1) :>
                 NewUser(clock + 1, email,
                         Obj("hashedPassword" :> Str(password)))) @@ users
  /\ emailIndex' = (ToLowerCase(email) :> (clock + 1)) @@ emailIndex
  /\ clock' = clock + 1

\* UpdateUserDto {email?, displayName?}
UpdateUserDto(email, displayName) ==
  [email |-> email, displayName |-> displayName]

\* the user update(id, data) stores for the user it found
UpdatedUser(user, data) ==
  NewUser(user.id,
          IF IsTruthyText(data.email) THEN data.email.v ELSE user.email,
          Spread(user.metadata, "displayName", data.displayName))

\* update(id, data) after its findById found `user`: the index follows a
\* changed email, the map gets the updated user
update(id, user, data) ==
  /\ emailIndex' =
       IF IsTruthyText(data.email) /\ data.email.v # user.email
       THEN (ToLowerCase(data.email.v) :> id)
            @@ MapDelete(emailIndex, ToLowerCase(user.email))
       ELSE emailIndex
  /\ users' = (id :> UpdatedUser(user, data)) @@ users
  /\ clock' = clock

\* delete(id)
delete(id) ==
  /\ IF findById(id) # Null
     THEN /\ emailIndex' = MapDelete(emailIndex, ToLowerCase(users[id].email))
          /\ users' = MapDelete(users, id)
     ELSE UNCHANGED <<users, emailIndex>>
  /\ clock' = clock

\* clear()
clear ==
  /\ users' = <<>>
  /\ emailIndex' = <<>>
  /\ clock' = clock

\* ------------------------------------------------------------------------
\* Use cases (usecases/example.usecases.ts) over the container's repository
\* and email service; every await is a point where other executions run
\* ------------------------------------------------------------------------
\* "a@x.c", "A@x.c", "b@x.c" and the malformed "ax.c"
Emails ==
  {<<"a", "@", "x", ".", "c">>, <<"A", "@", "x", ".", "c">>,
   <<"b", "@", "x", ".", "c">>, <<"a", "x", ".", "c">>}

\* "pw" and "password"
Passwords == {<<"p", "w">>, <<"p", "a", "s", "s", "w", "o", "r", "d">>}

\* updates.displayName: left out, "J", "Jo"
DisplayNames == {Undefined, Str(<<"J">>), Str(<<"J", "o">>)}

\* the decimal numeral of a small number
Numeral(n) == <<"0", "1", "2", "3", "4", "5", "6", "7", "8", "9">>[n + 1]

\* /^[^\s@]+@[^\s@]+\.[^\s@]+$/.test(email)
isValidEmail(email) ==
  /\ \A i \in 1..Len(email) : email[i] # " "
  /\ Cardinality({i \in 1..Len(email) : email[i] = "@"}) = 1
  /\ \E j \in 1..Len(email) :
       /\ email[j] = "."
       /\ IndexOf(email, "@") > 1
       /\ j > IndexOf(email, "@") + 1
       /\ j < Len(email)

\* what emailService.sendVerificationEmail(user.email) may do
sendVerificationEmail ==
  {NoError, NewExternalServiceError("EmailService", NoArg, Undefined)}

\* the execution raises `error`
Reject(e, error) ==
  executions' = [executions EXCEPT ![e].pc = "raised", ![e].error = error]

\* RegisterUserUseCase.execute(email, password) up to its first await: the
\* two validations and the call of findByEmail
RegisterUserUseCase_execute(e) ==
  /\ executions[e].pc = "idle"
  /\ \E email \in Emails, password \in Passwords :
       LET call == [executions[e] EXCEPT !.op = "registerUser",
                                         !.email = email,
                                         !.password = password,
                                         !.before = users]
       IN
       IF ~isValidEmail(email)
       THEN executions' =
              [executions EXCEPT ![e] =
                 [call EXCEPT !.pc = "raised",
                              !.error =
                                NewError("ValidationError",
                                         "Invalid email format",
                                         Obj("email" :> Str(email)))]]
       ELSE IF Len(password) < 8
       THEN executions' =
              [executions EXCEPT ![e] =
                 [call EXCEPT !.pc = "raised",
                              !.error =
                                NewError("ValidationError",
                                         "Password must be at least 8 characters",
                                         Obj(("minLength" :> Num("8"))
                                             @@ ("providedLength" :>
                                                   Num(Numeral(Len(password))))))]]
       ELSE executions' =
              [executions EXCEPT ![e] =
                 [call EXCEPT !.pc = "register_found",
                              !.existingUser = findByEmail(email)]]
  /\ UNCHANGED <<users, emailIndex, clock>>
  /\ UNCHANGED <<requestVars, containerInstance, containerCalls, probe>>

\* after `await findByEmail`: ConflictError for an existing user, else the
\* call of create
RegisterUserUseCase_afterFind(e) ==
  /\ executions[e].pc = "register_found"
  /\ IF executions[e].existingUser # Null
     THEN /\ Reject(e, NewError("ConflictError",
                                "User with this email already exists",
                                Obj("email" :> Str(executions[e].email))))
          /\ UNCHANGED <<users, emailIndex, clock>>
     ELSE /\ create(executions[e].email, executions[e].password)
          /\ executions' = [executions EXCEPT ![e].pc = "register_created",
                                              ![e].user = users'[clock']]
  /\ UNCHANGED <<requestVars, containerInstance, containerCalls, probe>>

\* after `await create`: the call of sendVerificationEmail
RegisterUserUseCase_afterCreate(e) ==
  /\ executions[e].pc = "register_created"
  /\ \E failure \in sendVerificationEmail :
       executions' = [executions EXCEPT ![e].pc = "register_sent",
                                        ![e].error = failure]
  /\ UNCHANGED <<users, emailIndex, clock>>
  /\ UNCHANGED <<requestVars, containerInstance, containerCalls, probe>>

\* after `await sendVerificationEmail`: the user is returned, or the email
\* service's error leaves execute
RegisterUserUseCase_afterSend(e) ==
  /\ executions[e].pc = "register_sent"
  /\ executions' =
       [executions EXCEPT
          ![e].pc = IF executions[e].error = NoError THEN "returned"
                                                     ELSE "raised"]
  /\ UNCHANGED <<users, emailIndex, clock>>
  /\ UNCHANGED <<requestVars, containerInstance, containerCalls, probe>>

\* UpdateUserProfileUseCase.execute(userId, {displayName}) up to its first
\* await: the call of findById
UpdateUserProfileUseCase_execute(e) ==
  /\ executions[e].pc = "idle"
  /\ \E userId \in 1..MaxUsers, displayName \in DisplayNames :
       executions' =
         [executions EXCEPT ![e] =
            [@ EXCEPT !.op = "updateUserProfile", !.pc = "update_found",
                      !.userId = userId, !.displayName = displayName,
                      !.existingUser = findById(userId),
                      !.before = users]]
  /\ UNCHANGED <<users, emailIndex, clock>>
  /\ UNCHANGED <<requestVars, containerInstance, containerCalls, probe>>

\* after `await findById`: NotFoundError, ValidationError for a display name
\* shorter than 2, else the call of repository.update, which calls findById
UpdateUserProfileUseCase_afterFind(e) ==
  /\ executions[e].pc = "update_found"
  /\ IF executions[e].existingUser = Null
     THEN Reject(e, NewError("NotFoundError", "User not found",
                             Obj("userId" :>
                                   Num(Numeral(executions[e].userId)))))
     ELSE IF IsDefined(executions[e].displayName)
             /\ Len(executions[e].displayName.v) < 2
     THEN Reject(e, NewError("ValidationError",
                             "Display name must be at least 2 characters",
                             Obj(("minLength" :> Num("2"))
                                 @@ ("providedLength" :>
                                       Num(Numeral(
                                         Len(executions[e].displayName.v)))))))
     ELSE executions' =
            [executions EXCEPT ![e].pc = "update_inRepository",
                               ![e].existingUser =
                                 findById(executions[e].userId)]
  /\ UNCHANGED <<users, emailIndex, clock>>
  /\ UNCHANGED <<requestVars, containerInstance, containerCalls, probe>>

\* repository.update after its `await this.findById(id)`: an Error when the
\* user is gone, else the updated user is stored and returned
UpdateUserProfileUseCase_update(e) ==
  /\ executions[e].pc = "update_inRepository"
  /\ IF executions[e].existingUser = Null
     THEN /\ Reject(e, JsError("Error", "User with ID not found", "", 0))
          /\ UNCHANGED <<users, emailIndex, clock>>
     ELSE /\ update(executions[e].userId, executions[e].existingUser,
                    UpdateUserDto(Undefined, executions[e].displayName))
          /\ executions' =
               [executions EXCEPT
                  ![e].pc = "update_stored",
                  ![e].user =
                    UpdatedUser(executions[e].existingUser,
                                UpdateUserDto(Undefined,
                                              executions[e].displayName))]
  /\ UNCHANGED <<requestVars, containerInstance, containerCalls, probe>>

\* after `await update`: the updated user is returned
UpdateUserProfileUseCase_afterUpdate(e) ==
  /\ executions[e].pc = "update_stored"
  /\ executions' = [executions EXCEPT ![e].pc = "returned"]
  /\ UNCHANGED <<users, emailIndex, clock>>
  /\ UNCHANGED <<requestVars, containerInstance, containerCalls, probe>>

\* the caller has taken the result
Release(e) ==
  /\ executions[e].pc \in {"returned", "raised"}
  /\ executions' = [executions EXCEPT ![e] = NoExecution]
  /\ UNCHANGED <<users, emailIndex, clock>>
  /\ UNCHANGED <<requestVars, containerInstance, containerCalls, probe>>

ExecutionStep(e) ==
  \/ RegisterUserUseCase_execute(e)
  \/ RegisterUserUseCase_afterFind(e)
  \/ RegisterUserUseCase_afterCreate(e)
  \/ RegisterUserUseCase_afterSend(e)
  \/ UpdateUserProfileUseCase_execute(e)
  \/ UpdateUserProfileUseCase_afterFind(e)
  \/ UpdateUserProfileUseCase_update(e)
  \/ UpdateUserProfileUseCase_afterUpdate(e)
  \/ Release(e)

InitUseCases == Init /\ production = FALSE

\* executions of both use cases, one after the other
NextUseCases ==
  \E e \in Execs :
    /\ \A o \in Execs \ {e} : executions[o].pc = "idle"
    /\ ExecutionStep(e)

SpecUseCases == InitUseCases /\ [][NextUseCases]_vars

\* registrations in flight at the same time
RegisterStep(e) ==
  \/ RegisterUserUseCase_execute(e)
  \/ RegisterUserUseCase_afterFind(e)
  \/ RegisterUserUseCase_afterCreate(e)
  \/ RegisterUserUseCase_afterSend(e)
  \/ Release(e)

SpecRegister == InitUseCases /\ [][\E e \in Execs : RegisterStep(e)]_vars

\* ------------------------------------------------------------------------
\* Properties of the use cases and of the repository
\* ------------------------------------------------------------------------
\* the part of the email before "@"
LocalPart(email) == SubSeq(email, 1, IndexOf(email, "@") - 1)

\* execution e of use case `op` has returned
Returned(e, op) == executions[e].op = op /\ executions[e].pc = "returned"

\* C24: getDisplayName() of a user is its explicit display-name attribute
\* when it has one and otherwise the part of its email before "@"; the user
\* UpdateUserProfileUseCase.execute(id, {displayName: d}) returns has
\* getDisplayName() = d
C24_DisplayNameIsExplicit ==
  /\ \A id \in DOMAIN users :
       getDisplayName(users[id]) =
         IF IsTruthyText(MetadataField(users[id], "displayName"))
         THEN MetadataField(users[id], "displayName").v
         ELSE LocalPart(users[id].email)
  /\ \A e \in Execs :
       (Returned(e, "updateUserProfile") /\ IsDefined(executions[e].displayName))
         => getDisplayName(executions[e].user) = executions[e].displayName.v

\* ------------------------------------------------------------------------
\* Error factories (domain/errors/factories.ts): ErrorFactory.notFound
\* ------------------------------------------------------------------------
\* `${resourceType} not found`
NotFoundMessage(resourceType) ==
  IF resourceType = "Team" THEN "Team not found" ELSE "Order not found"

\* NotFoundErrorFactory.user(userId)
NotFoundErrorFactory_user(userId) ==
  NewUserNotFoundError(Str(userId), NoArg, Undefined)

\* NotFoundErrorFactory.resource(resourceType, resourceId)
NotFoundErrorFactory_resource(resourceType, resourceId) ==
  NewError("ValidationError", NotFoundMessage(resourceType),
           Obj(("resourceType" :> Str(resourceType))
               @@ ("resourceId" :> Str(resourceId))))

\* the errors ErrorFactory.notFound makes
NotFoundErrors ==
  {NotFoundErrorFactory_user(u) : u \in UserIds}
  \cup {NotFoundErrorFactory_resource(t, i) :
          t \in {"Team", "Order"}, i \in {"t1", "o7"}}

\* handlers throw what ErrorFactory.notFound made; the translator answers
InitFactories ==
  /\ production \in BOOLEAN
  /\ err \in [Reqs -> NotFoundErrors \cup {NoError}]
  /\ err[1] # NoError
  /\ pc = [r \in Reqs |-> IF err[r] = NoError THEN "idle" ELSE "onError"]
  /\ route = [r \in Reqs |-> ""]
  /\ cookies = [r \in Reqs |-> NoCookieHeader]
  /\ pos = [r \in Reqs |-> 0]
  /\ ctx = [r \in Reqs |-> EmptyContext]
  /\ authLocals = [r \in Reqs |-> NoLocals]
  /\ res = [r \in Reqs |-> NoResponse]
  /\ log = [r \in Reqs |-> <<>>]
  /\ handlerRuns = [r \in Reqs |-> 0]
  /\ fault = [r \in Reqs |-> NoError]
  /\ sink = "up"
  /\ frame = [r \in Reqs |-> "chain"]
  /\ AtStartup

SpecFactories == InitFactories /\ [][NextTranslate]_vars

\* C25: what ErrorFactory.notFound.resource returns is a not-found error:
\* translated, it gives an HTTP 404 response of the NOT_FOUND family, as
\* what ErrorFactory.notFound.user returns does
C25_NotFoundFactoriesGive404 ==
  \A r \in Reqs :
    (Translated(r) /\ err[r] \in NotFoundErrors) =>
      /\ res[r].status = 404
      /\ ErrorOf(res[r])["code"] \in {Str("NOT_FOUND"), Str("USER_NOT_FOUND")}

\* ------------------------------------------------------------------------
\* The container module (container.ts): getContainer, initializeContainer,
\* resetContainer, called in any order from process start
\* ------------------------------------------------------------------------
\* no request is being handled
NoRequests ==
  /\ production = FALSE
  /\ pc = [r \in Reqs |-> "idle"]
  /\ route = [r \in Reqs |-> ""]
  /\ cookies = [r \in Reqs |-> NoCookieHeader]
  /\ pos = [r \in Reqs |-> 0]
  /\ ctx = [r \in Reqs |-> EmptyContext]
  /\ authLocals = [r \in Reqs |-> NoLocals]
  /\ err = [r \in Reqs |-> NoError]
  /\ res = [r \in Reqs |-> NoResponse]
  /\ log = [r \in Reqs |-> <<>>]
  /\ handlerRuns = [r \in Reqs |-> 0]
  /\ fault = [r \in Reqs |-> NoError]
  /\ sink = "up"
  /\ frame = [r \in Reqs |-> "chain"]

\* createContainer(): a container that is none of those created before
createContainer ==
  1 + Cardinality({containerCalls[i].instance : i \in 1..Len(containerCalls)}
                  \ {0})

\* an initializeContainer that builds a container on every call
initializeContainer_Recreate ==
  /\ Len(containerCalls) < MaxCalls
  /\ containerInstance' = createContainer
  /\ containerCalls' =
       Append(containerCalls,
              ContainerCall("initializeContainer", FALSE, containerInstance'))
  /\ UNCHANGED <<requestVars, users, emailIndex, clock, executions, probe>>

\* initializeContainer(): the existing container, else a created one
initializeContainer ==
  /\ Len(containerCalls) < MaxCalls
  /\ containerInstance' =
       IF containerInstance # 0 THEN containerInstance ELSE createContainer
  /\ containerCalls' =
       Append(containerCalls,
              ContainerCall("initializeContainer", FALSE, containerInstance'))
  /\ UNCHANGED <<requestVars, users, emailIndex, clock, executions, probe>>

\* getContainer(): the container, or an Error when there is none
getContainer ==
  /\ Len(containerCalls) < MaxCalls
  /\ containerCalls' =
       Append(containerCalls,
              ContainerCall("getContainer", containerInstance = 0,
                            containerInstance))
  /\ UNCHANGED <<requestVars, containerInstance, users, emailIndex, clock,
                 executions, probe>>

\* resetContainer()
resetContainer ==
  /\ Len(containerCalls) < MaxCalls
  /\ containerInstance' = 0
  /\ containerCalls' =
       Append(containerCalls, ContainerCall("resetContainer", FALSE, 0))
  /\ UNCHANGED <<requestVars, users, emailIndex, clock, executions, probe>>

\* process start: the module is loaded, nothing has been called
InitContainer ==
  /\ NoRequests
  /\ containerInstance = 0
  /\ containerCalls = <<>>
  /\ users = <<>>
  /\ emailIndex = <<>>
  /\ clock = 0
  /\ executions = [e \in Execs |-> NoExecution]
  /\ probe = NoProbe

SpecContainer ==
  InitContainer
  /\ [][initializeContainer \/ getContainer \/ resetContainer]_vars

\* call i was made with an initializeContainer before it and no
\* resetContainer in between
InitializedBefore(i) ==
  \E j \in 1..(i - 1) :
    /\ containerCalls[j].op = "initializeContainer"
    /\ \A k \in (j + 1)..(i - 1) : containerCalls[k].op # "resetContainer"

\* calls i < j that returned a container, with no resetContainer in between
SameEpoch(i, j) ==
  /\ i < j
  /\ containerCalls[i].op # "resetContainer" /\ ~containerCalls[i].raised
  /\ containerCalls[j].op # "resetContainer" /\ ~containerCalls[j].raised
  /\ \A k \in i..j : containerCalls[k].op # "resetContainer"

Raised(e, op) == executions[e].op = op /\ executions[e].pc = "raised"

\* registration e has created its user
Created(e) ==
  /\ executions[e].op = "registerUser"
  /\ executions[e].pc \in {"register_created", "register_sent", "returned"}

\* C27: under any interleaving of RegisterUserUseCase.execute calls, the
\* repository never holds two users whose emails are equal ignoring case:
\* of several registrations of one email at most one gets to create its
\* user, the others raise ConflictError (409)
C27_NoDuplicateEmails ==
  /\ \A i, j \in DOMAIN users :
       ToLowerCase(users[i].email) = ToLowerCase(users[j].email) => i = j
  /\ \A e, o \in Execs :
       (Created(e) /\ Created(o)
        /\ ToLowerCase(executions[e].email) = ToLowerCase(executions[o].email))
         => e = o
  /\ \A e \in Execs :
       (Raised(e, "registerUser") /\ executions[e].existingUser # Null)
         => /\ executions[e].error.name = "ConflictError"
            /\ executions[e].error.statusCode = 409

\* ------------------------------------------------------------------------
\* The repository on its own: create, update, delete and clear in any order
\* ------------------------------------------------------------------------
InMemoryUserRepository_create ==
  /\ \E email \in Emails, password \in Passwords : create(email, password)
  /\ UNCHANGED <<requestVars, containerInstance, containerCalls, executions,
                 probe>>

\* update(id, data): an Error for an unknown id, else the update
InMemoryUserRepository_update ==
  /\ \E id \in 1..MaxUsers, displayName \in DisplayNames,
        email \in {Undefined} \cup {Str(address) : address \in Emails} :
       IF findById(id) = Null
       THEN UNCHANGED <<users, emailIndex, clock>>
       ELSE update(id, findById(id), UpdateUserDto(email, displayName))
  /\ UNCHANGED <<requestVars, containerInstance, containerCalls, executions,
                 probe>>

InMemoryUserRepository_delete ==
  /\ \E id \in 1..MaxUsers : delete(id)
  /\ UNCHANGED <<requestVars, containerInstance, containerCalls, executions,
                 probe>>

InMemoryUserRepository_clear ==
  /\ clear
  /\ UNCHANGED <<requestVars, containerInstance, containerCalls, executions,
                 probe>>

SpecRepository ==
  InitUseCases
  /\ [][\/ InMemoryUserRepository_create
        \/ InMemoryUserRepository_update
        \/ InMemoryUserRepository_delete
        \/ InMemoryUserRepository_clear]_vars

\* C28: after any sequence of create, update, delete and clear the email
\* index and the user map agree: emailIndex maps a lower-cased email to an id
\* exactly when users holds a user with that id and that lower-cased email;
\* so findByEmail finds every stored user by its email and existsByEmail is
\* true exactly for the emails of stored users
C28_IndexAgreesWithUsers ==
  /\ \A k \in DOMAIN emailIndex :
       /\ emailIndex[k] \in DOMAIN users
       /\ ToLowerCase(users[emailIndex[k]].email) = k
  /\ \A id \in DOMAIN users :
       /\ ToLowerCase(users[id].email) \in DOMAIN emailIndex
       /\ emailIndex[ToLowerCase(users[id].email)] = id
       /\ findByEmail(users[id].email) = users[id]
  /\ \A email \in Emails :
       existsByEmail(email) <=>
         \E id \in DOMAIN users :
           ToLowerCase(users[id].email) = ToLowerCase(email)

\* C29: whenever RegisterUserUseCase.execute raises (invalid email, short
\* password, existing email, failure of the email service), the repository
\* holds exactly the users it held before the call
C29_RaisedRegistrationLeavesNoUser ==
  \A e \in Execs :
    Raised(e, "registerUser") =>
      /\ users = executions[e].before
      /\ executions[e].user \notin {users[id] : id \in DOMAIN users}

\* ------------------------------------------------------------------------
\* The cookie accessor on its own: getCookieValue(key) over Cookie headers
\* built from name/value pairs
\* ------------------------------------------------------------------------
\* the keys the accessor is called with: "a", "ab", "b"
CookieKeys == {<<"a">>, <<"a", "b">>, <<"b">>}

\* the cookie lists a client may send: up to MaxCookies cookies named "a" or
\* "ab" with the values "", "v" or "x=y"
CookieLists ==
  UNION {[1..n -> [name : {<<"a">>, <<"a", "b">>},
                   value : {<<>>, <<"v">>, <<"x", "=", "y">>}]] :
           n \in 0..MaxCookies}

\* the Cookie header a client sends for a list of cookies: "n1=v1; n2=v2"
RECURSIVE RenderCookies(_)
RenderCookies(list) ==
  IF list = <<>> THEN <<>>
  ELSE Head(list).name \o <<"=">> \o Head(list).value
       \o (IF Tail(list) = <<>> THEN <<>>
           ELSE <<";", " ">> \o RenderCookies(Tail(list)))

\* the provider calls request.getCookieValue(key) on a request without a
\* Cookie header, or with the header of a cookie list
CallGetCookieValue ==
  /\ \E key \in CookieKeys :
       \/ probe' = [called |-> TRUE, cookies |-> <<>>,
                    header |-> NoCookieHeader, key |-> key,
                    value |-> getCookieValue(NoCookieHeader, key)]
       \/ \E list \in CookieLists :
            probe' = [called |-> TRUE, cookies |-> list,
                      header |-> CookieHeader(RenderCookies(list)), key |-> key,
                      value |-> getCookieValue(
                                  CookieHeader(RenderCookies(list)), key)]
  /\ UNCHANGED <<requestVars, containerInstance, containerCalls, users,
                 emailIndex, clock, executions>>

SpecCookies == InitUseCases /\ [][CallGetCookieValue]_vars

\* the values of the cookies of the probe that are named `key`
ValuesNamed(key) ==
  {Str(probe.cookies[i].value) :
     i \in {j \in 1..Len(probe.cookies) : probe.cookies[j].name = key}}

\* C30: for every Cookie header and key the accessor returns the complete
\* value of the cookie named exactly key, also when the value contains "=",
\* and undefined when the header is absent or has no cookie of that name
C30_CookieValueIsComplete ==
  probe.called =>
    IF ValuesNamed(probe.key) = {} THEN probe.value = Undefined
    ELSE probe.value \in ValuesNamed(probe.key)

====
